---- MODULE Spec2Model ----
(***************************************************************************)
(* Token lifecycle and token migration of the Fitbit webhook.              *)
(*                                                                         *)
(* The credential store is the Firestore collection "fitbit_tokens": a map *)
(* from document id to document, a document being a map from field name to *)
(* value.  Two programs write it: the live path (exchangeCodeForTokens,    *)
(* refreshFitbitAccessToken, both through saveTokensToFirestore) and the   *)
(* migration script (migrateTokens).                                       *)
(*                                                                         *)
(* Firebase UIDs and Fitbit user ids are different name spaces: no string  *)
(* is both.                                                                *)
(***************************************************************************)
EXTENDS Integers, Sequences, FiniteSets, TLC

Uids == {"u1", "u2"}            \* Firebase UIDs ("owner ids")
Fids == {"f1", "f2"}            \* Fitbit user ids ("external ids")
DocIds == Fids \cup Uids

\* collection.get() returns documents in ascending document-id order
DocOrder == <<"f1", "f2", "u1", "u2">>

MaxRuns == 2                    \* migration runs started in one behaviour
MaxGen == 2                     \* token responses to two requests in flight
MaxGenLive == 1                 \* token responses to the live path on its own
MaxTicks == 1                   \* clock advances
MaxReq == 1                     \* live requests in flight at once
MaxRunsLive == 1                \* migration runs beside live traffic
MaxGenMig == 1                  \* token responses beside a migration run
MaxFoods == 2                   \* foods in one list

VARIABLES
  store,          \* fitbit_tokens: document id -> document
  now,            \* new Date().getTime()
  gen,            \* token responses issued by the provider so far
  reqs,           \* live requests: slot -> request state
  runs,           \* migration runs started so far
  migPc,          \* position of the migration script
  DRY_RUN_ENV,    \* process.env.DRY_RUN of the current run
  snapshot,       \* the documents read at the start of the run
  idx,            \* index in snapshot.docs of the next document
  migratedCount,
  skippedCount,
  errorCount,
  log,            \* per-document trace of the current run
  hist,           \* summaries of the completed runs
  getError,       \* the read of the collection rejected in the current run
  exitSite,       \* the statement that ended the script
  killed          \* the runs that were killed from outside

vars == <<store, now, gen, reqs, runs, migPc, DRY_RUN_ENV, snapshot, idx,
          migratedCount, skippedCount, errorCount, log, hist, getError,
          exitSite, killed>>

liveVars == <<now, gen, reqs>>
migVars == <<runs, migPc, DRY_RUN_ENV, snapshot, idx, migratedCount,
             skippedCount, errorCount, log, hist, getError, exitSite, killed>>

Range(s) == {s[i] : i \in 1..Len(s)}

(***************************************************************************)
(* Firestore primitives.                                                   *)
(***************************************************************************)

\* FieldValue.arrayUnion(...elems) applied to the stored value arr: each
\* element not already in the array is appended, in order.
\* arrayUnion taken for a plain array value: the stored array is replaced
ArrayUnionOverwrites(arr, elems) == elems

\* a push in place of arrayUnion: elements are appended even when present
ArrayUnionAppends(arr, elems) == arr \o elems

RECURSIVE ArrayUnion(_, _)
ArrayUnion(arr, elems) ==
  IF elems = <<>> THEN arr
  ELSE IF Head(elems) \in Range(arr) THEN ArrayUnion(arr, Tail(elems))
  ELSE ArrayUnion(Append(arr, Head(elems)), Tail(elems))

\* The document that doc(id).set(data, {merge: true}) leaves: the fields
\* of data replace the stored ones, the arrayUnion fields are unioned with
\* the stored array, every other stored field is kept.
\* a merge in which a stored field wins over the written one
MergeDocKeepsStored(old, fields, unions) ==
  [f \in DOMAIN old \cup DOMAIN fields \cup DOMAIN unions |->
     IF f \in DOMAIN unions
       THEN ArrayUnion(IF f \in DOMAIN old THEN old[f] ELSE <<>>, unions[f])
     ELSE IF f \in DOMAIN old THEN old[f]
     ELSE fields[f]]

MergeDoc(old, fields, unions) ==
  [f \in DOMAIN old \cup DOMAIN fields \cup DOMAIN unions |->
     IF f \in DOMAIN unions
       THEN ArrayUnion(IF f \in DOMAIN old THEN old[f] ELSE <<>>, unions[f])
     ELSE IF f \in DOMAIN fields THEN fields[f]
     ELSE old[f]]

\* set() without {merge: true}: the document is replaced
SetOverwrite(s, id, fields, unions) ==
  [k \in DOMAIN s \cup {id} |->
     IF k = id THEN MergeDoc(<<>>, fields, unions) ELSE s[k]]

\* collection.doc(id).set(fields + arrayUnion sentinels, {merge: true})
SetMerge(s, id, fields, unions) ==
  [k \in DOMAIN s \cup {id} |->
     IF k = id
       THEN MergeDoc(IF id \in DOMAIN s THEN s[id] ELSE <<>>, fields, unions)
       ELSE s[k]]

\* collection.get(): the existing documents, as (id, data) pairs
RECURSIVE DocsFrom(_, _)
DocsFrom(s, i) ==
  IF i > Len(DocOrder) THEN <<>>
  ELSE IF DocOrder[i] \in DOMAIN s
    THEN <<[id |-> DocOrder[i], data |-> s[DocOrder[i]]]>> \o DocsFrom(s, i + 1)
    ELSE DocsFrom(s, i + 1)

CollectionGet(s) == DocsFrom(s, 1)

(***************************************************************************)
(* Documents.                                                              *)
(***************************************************************************)

Has(data, f) == f \in DOMAIN data

\* data.firebaseUids && Array.isArray(data.firebaseUids)
IsNewFormat(data) == Has(data, "firebaseUids")

\* !data.firebaseUid || !data.fitbitUserId
IsIncomplete(data) == ~Has(data, "firebaseUid") \/ ~Has(data, "fitbitUserId")

\* a record the migration migrates
IsLegacy(data) == ~IsNewFormat(data) /\ ~IsIncomplete(data)

\* the membership of a document: its firebaseUids array
OwnersOf(data) == IF Has(data, "firebaseUids") THEN Range(data.firebaseUids) ELSE {}

(***************************************************************************)
(* The token endpoint of the provider.                                     *)
(***************************************************************************)

ExpiresIn == 1                  \* expires_in of a token response, seconds

\* the JSON body of the g-th 2xx token response, for Fitbit user f
TokenResponse(g, f) ==
  [access_token |-> <<"access", 10 + g>>,
   refresh_token |-> <<"refresh", 10 + g>>,
   user_id |-> f,
   expires_in |-> ExpiresIn]

(***************************************************************************)
(* Initial content of the collection: what the versions of the live path   *)
(* and earlier migration runs leave.  The document at position i of        *)
(* DocOrder carries token i.                                               *)
(***************************************************************************)

Pos(id) == CHOOSE i \in 1..Len(DocOrder) : DocOrder[i] = id

TokenFields(id) ==
  [accessToken |-> <<"access", Pos(id)>>,
   refreshToken |-> <<"refresh", Pos(id)>>,
   expiresAt |-> ExpiresIn * 1000]

\* a record that holds an access token and no refreshToken
WithoutRefreshToken(id) ==
  [fitbitUserId |-> "f1", accessToken |-> <<"access", Pos(id)>>,
   expiresAt |-> ExpiresIn * 1000]

InitDocs(id) ==
  IF id \in Uids
    THEN \* written by saveTokensToFirestore(id, f, tokens), or lacking
         \* fitbitUserId, or lacking refreshToken
         {[fitbitUserId |-> f, firebaseUid |-> id] @@ TokenFields(id) : f \in Fids}
           \cup {[firebaseUid |-> id] @@ TokenFields(id)}
           \cup {WithoutRefreshToken(id)}
    ELSE \* the three token fields alone, or a new-format document
         {TokenFields(id)}
           \cup {[fitbitUserId |-> id, firebaseUids |-> a] @@ TokenFields(id) :
                   a \in {<<"u1">>, <<"u2">>, <<"u1", "u2">>}}

InitStores ==
  UNION {{s \in [D -> UNION {InitDocs(id) : id \in D}] : \A id \in D : s[id] \in InitDocs(id)} :
           D \in SUBSET DocIds}

Idle == [pc |-> "idle"]

Init ==
  /\ store \in InitStores
  /\ now = 0
  /\ gen = 0
  /\ reqs = [r \in 1..MaxReq |-> Idle]
  /\ runs = 0
  /\ migPc = "idle"
  /\ DRY_RUN_ENV = "unset"
  /\ snapshot = <<>>
  /\ idx = 1
  /\ migratedCount = 0
  /\ skippedCount = 0
  /\ errorCount = 0
  /\ log = <<>>
  /\ hist = <<>>
  /\ getError = FALSE
  /\ exitSite = "none"
  /\ killed = <<>>

(***************************************************************************)
(* The migration script, scripts/migrate-tokens.js.                        *)
(***************************************************************************)

\* process.env.DRY_RUN as the README starts the script: set to "true", or not set
DryRunEnvs == {"true", "unset"}

\* the mode read from a variable that is never set
DRY_RUN_Unread == FALSE

\* const DRY_RUN = process.env.DRY_RUN === "true"
DRY_RUN == DRY_RUN_ENV = "true"

\* the class of a snapshot document, in the order the loop tests it
Classify(data) ==
  IF IsNewFormat(data) THEN "skip_new_format"
  ELSE IF IsIncomplete(data) THEN "skip_incomplete"
  ELSE "migrate"

\* the write aimed at the source document itself
NewDocIdIsSource(id, data) == id

\* const newDocId = data.fitbitUserId
NewDocId(id, data) == data.fitbitUserId

\* newData with the two tokens exchanged
NewDataSwapsTokens(data) ==
  [accessToken |-> data.refreshToken,
   refreshToken |-> data.accessToken,
   expiresAt |-> data.expiresAt,
   fitbitUserId |-> data.fitbitUserId]

\* the plain fields of newData
NewData(data) ==
  [accessToken |-> data.accessToken,
   refreshToken |-> data.refreshToken,
   expiresAt |-> data.expiresAt,
   fitbitUserId |-> data.fitbitUserId]

\* newData written without its owners field
NewDataWithoutOwners(data) == <<>>

\* firebaseUids: FieldValue.arrayUnion(data.firebaseUid)
NewDataUnions(data) == [firebaseUids |-> <<data.firebaseUid>>]

\* a migration that moves: the source document is deleted after the write
MigrationWriteMoves(s, id, data) ==
  [k \in DOMAIN SetMerge(s, NewDocId(id, data), NewData(data), NewDataUnions(data)) \ {id} |->
     SetMerge(s, NewDocId(id, data), NewData(data), NewDataUnions(data))[k]]

\* the store after the write step of one legacy document
MigrationWrite(s, id, data) ==
  SetMerge(s, NewDocId(id, data), NewData(data), NewDataUnions(data))

\* a catch that logs the failed read and returns: the run ends as it does
\* on an empty collection
MigrateStartSwallows(env, readOk) ==
  /\ migPc \in {"idle", "exit0", "exit1", "killed"}
  /\ runs' = runs + 1
  /\ DRY_RUN_ENV' = env
  /\ idx' = 1
  /\ migratedCount' = 0
  /\ skippedCount' = 0
  /\ errorCount' = 0
  /\ log' = <<>>
  /\ getError' = ~readOk
  /\ IF ~readOk
       THEN /\ snapshot' = <<>>
            /\ migPc' = "exit0"
            /\ exitSite' = "entry_then"
       ELSE /\ snapshot' = CollectionGet(store)
            /\ migPc' = IF CollectionGet(store) = <<>> THEN "exit0" ELSE "loop"
            /\ exitSite' = IF CollectionGet(store) = <<>> THEN "entry_then" ELSE "none"
  /\ UNCHANGED <<store, hist, killed, liveVars>>

\* migrateTokens() up to the loop: the mode, the read of the collection,
\* the empty case.  A read that rejects is caught by the catch of
\* migrateTokens, which calls process.exit(1); an empty collection returns
\* and the then() of the script entry calls process.exit(0).
MigrateStart(env, readOk) ==
  /\ migPc \in {"idle", "exit0", "exit1", "killed"}
  /\ runs' = runs + 1
  /\ DRY_RUN_ENV' = env
  /\ idx' = 1
  /\ migratedCount' = 0
  /\ skippedCount' = 0
  /\ errorCount' = 0
  /\ log' = <<>>
  /\ getError' = ~readOk
  /\ IF ~readOk
       THEN /\ snapshot' = <<>>
            /\ migPc' = "exit1"
            /\ exitSite' = "migrateTokens_catch"
       ELSE /\ snapshot' = CollectionGet(store)
            /\ migPc' = IF CollectionGet(store) = <<>> THEN "exit0" ELSE "loop"
            /\ exitSite' = IF CollectionGet(store) = <<>> THEN "entry_then" ELSE "none"
  /\ UNCHANGED <<store, hist, killed, liveVars>>

\* a skip without its continue: the iteration goes on to count a migration
CountFallsThrough(class, outcome) ==
  /\ migratedCount' = migratedCount + (IF outcome \in {"migrated", "planned", "skipped"} THEN 1 ELSE 0)
  /\ skippedCount' = skippedCount + (IF outcome = "skipped" THEN 1 ELSE 0)
  /\ errorCount' = errorCount + (IF outcome = "error" THEN 1 ELSE 0)
  /\ log' = Append(log, [id |-> snapshot[idx].id, class |-> class, outcome |-> outcome])
  /\ idx' = idx + 1
  /\ UNCHANGED <<runs, migPc, DRY_RUN_ENV, snapshot, hist, getError, exitSite,
                 killed, liveVars>>

\* migratedCount++ placed inside the if (!DRY_RUN) block
CountOnlyWritten(class, outcome) ==
  /\ migratedCount' = migratedCount + (IF outcome = "migrated" THEN 1 ELSE 0)
  /\ skippedCount' = skippedCount + (IF outcome = "skipped" THEN 1 ELSE 0)
  /\ errorCount' = errorCount + (IF outcome = "error" THEN 1 ELSE 0)
  /\ log' = Append(log, [id |-> snapshot[idx].id, class |-> class, outcome |-> outcome])
  /\ idx' = idx + 1
  /\ UNCHANGED <<runs, migPc, DRY_RUN_ENV, snapshot, hist, getError, exitSite,
                 killed, liveVars>>

\* the end of one loop iteration: one counter, one trace line, next document
Count(class, outcome) ==
  /\ migratedCount' = migratedCount + (IF outcome \in {"migrated", "planned"} THEN 1 ELSE 0)
  /\ skippedCount' = skippedCount + (IF outcome = "skipped" THEN 1 ELSE 0)
  /\ errorCount' = errorCount + (IF outcome = "error" THEN 1 ELSE 0)
  /\ log' = Append(log, [id |-> snapshot[idx].id, class |-> class, outcome |-> outcome])
  /\ idx' = idx + 1
  /\ UNCHANGED <<runs, migPc, DRY_RUN_ENV, snapshot, hist, getError, exitSite,
                 killed, liveVars>>

InLoop == migPc = "loop" /\ idx <= Len(snapshot)

\* a document that is skipped: already new format, or fields missing
MigrateSkip ==
  /\ InLoop
  /\ Classify(snapshot[idx].data) # "migrate"
  /\ Count(Classify(snapshot[idx].data), "skipped")
  /\ UNCHANGED store

\* a legacy document whose write succeeds
MigrateWrite ==
  /\ InLoop
  /\ Classify(snapshot[idx].data) = "migrate"
  /\ ~DRY_RUN
  /\ store' = MigrationWrite(store, snapshot[idx].id, snapshot[idx].data)
  /\ Count("migrate", "migrated")

\* a write failure that is not caught in the loop: the script exits
MigrateWriteAborts ==
  /\ InLoop
  /\ Classify(snapshot[idx].data) = "migrate"
  /\ ~DRY_RUN
  /\ migPc' = "exit1"
  /\ exitSite' = "migrateTokens_catch"
  /\ UNCHANGED <<store, runs, DRY_RUN_ENV, snapshot, idx, migratedCount,
                 skippedCount, errorCount, log, hist, getError, killed, liveVars>>

\* a legacy document whose write throws
MigrateWriteFails ==
  /\ InLoop
  /\ Classify(snapshot[idx].data) = "migrate"
  /\ ~DRY_RUN
  /\ Count("migrate", "error")
  /\ UNCHANGED store

\* a legacy document in a dry run
MigrateDryRun ==
  /\ InLoop
  /\ Classify(snapshot[idx].data) = "migrate"
  /\ DRY_RUN
  /\ Count("migrate", "planned")
  /\ UNCHANGED store

\* a script that reads the collection again after the last document and
\* starts over when it has changed since the first read
MigrateSummaryRereads ==
  /\ migPc = "loop"
  /\ idx > Len(snapshot)
  /\ IF CollectionGet(store) # snapshot
       THEN /\ snapshot' = CollectionGet(store)
            /\ idx' = 1
            /\ log' = <<>>
            /\ migratedCount' = 0
            /\ skippedCount' = 0
            /\ errorCount' = 0
            /\ UNCHANGED <<migPc, exitSite, hist>>
       ELSE /\ migPc' = "exit0"
            /\ exitSite' = "entry_then"
            /\ hist' = Append(hist, [env |-> DRY_RUN_ENV,
                                     dryRun |-> DRY_RUN,
                                     snapshot |-> snapshot,
                                     log |-> log,
                                     migrated |-> migratedCount,
                                     skipped |-> skippedCount,
                                     errors |-> errorCount,
                                     total |-> Len(snapshot),
                                     after |-> store])
            /\ UNCHANGED <<snapshot, idx, migratedCount, skippedCount, errorCount, log>>
  /\ UNCHANGED <<store, runs, DRY_RUN_ENV, getError, killed, liveVars>>

\* the result summary after the loop, and the exit of the script
MigrateSummary ==
  /\ migPc = "loop"
  /\ idx > Len(snapshot)
  /\ migPc' = "exit0"
  /\ exitSite' = "entry_then"
  /\ hist' = Append(hist, [env |-> DRY_RUN_ENV,
                           dryRun |-> DRY_RUN,
                           snapshot |-> snapshot,
                           log |-> log,
                           migrated |-> migratedCount,
                           skipped |-> skippedCount,
                           errors |-> errorCount,
                           total |-> Len(snapshot),
                           after |-> store])
  /\ UNCHANGED <<store, runs, DRY_RUN_ENV, snapshot, idx, migratedCount,
                 skippedCount, errorCount, log, getError, killed, liveVars>>

\* the process is killed from outside while it is in the loop: between two
\* documents, before the summary, or while it awaits the set() of a legacy
\* document, whose write is then applied or not.  Nothing more is written or
\* printed: a write applied under the await has no line and no count.
MigrateKill(applied) ==
  /\ migPc = "loop"
  /\ applied => (InLoop /\ Classify(snapshot[idx].data) = "migrate" /\ ~DRY_RUN)
  /\ LET after == IF applied
                    THEN MigrationWrite(store, snapshot[idx].id, snapshot[idx].data)
                    ELSE store
     IN  /\ store' = after
         /\ killed' = Append(killed, [dryRun |-> DRY_RUN,
                                      snapshot |-> snapshot,
                                      log |-> log,
                                      after |-> after])
  /\ migPc' = "killed"
  /\ UNCHANGED <<runs, DRY_RUN_ENV, snapshot, idx, migratedCount,
                 skippedCount, errorCount, log, hist, getError, exitSite, liveVars>>

\* the loop of migrateTokens over the documents docs, every write succeeding
RECURSIVE RunOver(_, _)
RunOver(s, docs) ==
  IF docs = <<>> THEN s
  ELSE RunOver(IF Classify(Head(docs).data) = "migrate"
                 THEN MigrationWrite(s, Head(docs).id, Head(docs).data)
                 ELSE s,
               Tail(docs))

\* the store an apply run leaves that is started on s and is not disturbed
UninterruptedRun(s) == RunOver(s, CollectionGet(s))

(***************************************************************************)
(* The live path: src/firebase.js and src/fitbit.js.                       *)
(***************************************************************************)

\* getTokensFromFirestore(firebaseUid): the document, or null (<<>>)
getTokensFromFirestore(s, firebaseUid) ==
  IF firebaseUid \in DOMAIN s THEN s[firebaseUid] ELSE <<>>

\* the document id saveTokensToFirestore writes
SaveDocId(firebaseUid, fitbitUserId) == firebaseUid

\* tokenData of saveTokensToFirestore
TokenData(t, firebaseUid, fitbitUserId, tokens) ==
  [accessToken |-> tokens.access_token,
   refreshToken |-> tokens.refresh_token,
   expiresAt |-> t + (tokens.expires_in * 1000),
   fitbitUserId |-> fitbitUserId,
   firebaseUid |-> firebaseUid]

\* saveTokensToFirestore(firebaseUid, fitbitUserId, tokens) at time t
saveTokensToFirestore(s, t, firebaseUid, fitbitUserId, tokens) ==
  SetMerge(s, SaveDocId(firebaseUid, fitbitUserId),
           TokenData(t, firebaseUid, fitbitUserId, tokens), <<>>)

\* slot r takes the next request: no request is in flight in it, and every
\* slot before it has been used
Free(r) ==
  /\ reqs[r].pc \in {"idle", "done"}
  /\ \A q \in 1..(r - 1) : reqs[q].pc # "idle"

\* a step of slot r that begins a request begins it in the first slot that
\* is free
FirstFree(r) ==
  reqs[r].pc \in {"idle", "done"} => \A q \in 1..(r - 1) : reqs[q].pc \notin {"idle", "done"}

\* what a request has done so far: calls of the token endpoint, store writes
Counts(calls, writes) == [calls |-> calls, writes |-> writes]

\* the request in slot r returns or throws: outcome, and the value returned
Finish(r, op, firebaseUid, outcome, data, counts) ==
  reqs' = [reqs EXCEPT ![r] = [pc |-> "done", op |-> op, firebaseUid |-> firebaseUid,
                               outcome |-> outcome, data |-> data,
                               calls |-> counts.calls, writes |-> counts.writes]]

\* an exchange that saves whatever the endpoint answered
ExchangeFetchSavesAnyway(r, firebaseUid, f, ok) ==
  /\ Free(r)
  /\ IF ok
       THEN /\ gen' = gen + 1
            /\ reqs' = [reqs EXCEPT ![r] = [pc |-> "exchange_save", op |-> "exchange",
                                            firebaseUid |-> firebaseUid,
                                            data |-> TokenResponse(gen + 1, f),
                                            calledAt |-> now,
                                            calls |-> 1, writes |-> 0]]
            /\ UNCHANGED store
       ELSE /\ Finish(r, "exchange", firebaseUid, "FitbitApiError", <<>>, Counts(1, 1))
            /\ store' = saveTokensToFirestore(store, now, firebaseUid, f, TokenResponse(gen, f))
            /\ UNCHANGED gen
  /\ UNCHANGED <<now, migVars>>

\* exchangeCodeForTokens: the POST to the token endpoint and its answer.  On a
\* 2xx answer saveTokensToFirestore is called: it reads the clock (calledAt)
\* and builds tokenData before it awaits set().
ExchangeFetch(r, firebaseUid, f, ok) ==
  /\ Free(r)
  /\ IF ok
       THEN /\ gen' = gen + 1
            /\ reqs' = [reqs EXCEPT ![r] = [pc |-> "exchange_save", op |-> "exchange",
                                            firebaseUid |-> firebaseUid,
                                            data |-> TokenResponse(gen + 1, f),
                                            calledAt |-> now,
                                            calls |-> 1, writes |-> 0]]
       ELSE /\ Finish(r, "exchange", firebaseUid, "FitbitApiError", <<>>, Counts(1, 0))
            /\ UNCHANGED gen
  /\ UNCHANGED <<store, now, migVars>>

\* exchangeCodeForTokens: the set() of saveTokensToFirestore(firebaseUid,
\* data.user_id, data) returns or rejects; the document written carries the
\* expiresAt computed when saveTokensToFirestore was called
ExchangeSave(r, ok) ==
  /\ reqs[r].pc = "exchange_save"
  /\ IF ok
       THEN /\ store' = saveTokensToFirestore(store, reqs[r].calledAt, reqs[r].firebaseUid,
                                              reqs[r].data.user_id, reqs[r].data)
            /\ Finish(r, "exchange", reqs[r].firebaseUid, "ok", reqs[r].data,
                      Counts(reqs[r].calls, reqs[r].writes + 1))
       ELSE /\ Finish(r, "exchange", reqs[r].firebaseUid, "StoreError", <<>>,
                      Counts(reqs[r].calls, reqs[r].writes))
            /\ UNCHANGED store
  /\ UNCHANGED <<now, gen, migVars>>

\* the caller of refreshFitbitAccessToken in slot r: the handler of a POST
\* that found the token expired, or nobody (the function called on its own)
CalledByHandler(r) == reqs[r].pc = "refresh_read"

\* the request that refreshFitbitAccessToken(firebaseUid) runs in
RefreshBase(r, firebaseUid) ==
  IF CalledByHandler(r) THEN reqs[r]
  ELSE [op |-> "refresh", firebaseUid |-> firebaseUid, calls |-> 0, writes |-> 0]

\* a refresh that goes on to the token endpoint without stored tokens
RefreshReadNoCheck(r, firebaseUid, ok) ==
  /\ Free(r) \/ (CalledByHandler(r) /\ reqs[r].firebaseUid = firebaseUid)
  /\ IF ~ok
       THEN Finish(r, RefreshBase(r, firebaseUid).op, firebaseUid, "StoreError", <<>>,
                   Counts(RefreshBase(r, firebaseUid).calls, RefreshBase(r, firebaseUid).writes))
       ELSE reqs' = [reqs EXCEPT ![r] =
                       [pc |-> "refresh_fetch",
                        currentTokens |-> [refreshToken |-> <<"refresh", 0>>]
                                            @@ getTokensFromFirestore(store, firebaseUid)]
                         @@ RefreshBase(r, firebaseUid)]
  /\ UNCHANGED <<store, now, gen, migVars>>

\* a refresh that waits while another request refreshes the same owner
RefreshReadLocked(r, firebaseUid, ok) ==
  /\ Free(r) \/ (CalledByHandler(r) /\ reqs[r].firebaseUid = firebaseUid)
  /\ \A q \in DOMAIN reqs \ {r} :
       ~(reqs[q].pc \in {"refresh_fetch", "refresh_save"} /\ reqs[q].firebaseUid = firebaseUid)
  /\ LET currentTokens == getTokensFromFirestore(store, firebaseUid)
         base == RefreshBase(r, firebaseUid)
     IN  IF ~ok
           THEN Finish(r, base.op, firebaseUid, "StoreError", <<>>,
                       Counts(base.calls, base.writes))
         ELSE IF currentTokens = <<>> \/ ~Has(currentTokens, "refreshToken")
           THEN Finish(r, base.op, firebaseUid, "AuthenticationError", <<>>,
                       Counts(base.calls, base.writes))
           ELSE reqs' = [reqs EXCEPT ![r] =
                           [pc |-> "refresh_fetch", currentTokens |-> currentTokens] @@ base]
  /\ UNCHANGED <<store, now, gen, migVars>>

\* refreshFitbitAccessToken: the read of the stored tokens returns the
\* record or null, or the get() rejects and the error of the store is thrown
RefreshRead(r, firebaseUid, ok) ==
  /\ Free(r) \/ (CalledByHandler(r) /\ reqs[r].firebaseUid = firebaseUid)
  /\ LET currentTokens == getTokensFromFirestore(store, firebaseUid)
         base == RefreshBase(r, firebaseUid)
     IN  IF ~ok
           THEN Finish(r, base.op, firebaseUid, "StoreError", <<>>,
                       Counts(base.calls, base.writes))
         ELSE IF currentTokens = <<>> \/ ~Has(currentTokens, "refreshToken")
           THEN Finish(r, base.op, firebaseUid, "AuthenticationError", <<>>,
                       Counts(base.calls, base.writes))
           ELSE reqs' = [reqs EXCEPT ![r] =
                           [pc |-> "refresh_fetch", currentTokens |-> currentTokens] @@ base]
  /\ UNCHANGED <<store, now, gen, migVars>>

\* a refresh that saves before it looks at response.ok
RefreshFetchSavesAnyway(r, ok) ==
  /\ reqs[r].pc = "refresh_fetch"
  /\ IF ok /\ ~Has(reqs[r].currentTokens, "fitbitUserId")
       THEN /\ gen' = gen + 1
            /\ Finish(r, reqs[r].op, reqs[r].firebaseUid, "StoreError", <<>>,
                      Counts(reqs[r].calls + 1, reqs[r].writes))
            /\ UNCHANGED store
     ELSE IF ok
       THEN /\ gen' = gen + 1
            /\ reqs' = [reqs EXCEPT ![r] =
                 [pc |-> "refresh_save",
                  sent |-> reqs[r].currentTokens.refreshToken,
                  data |-> TokenResponse(gen + 1, ""),
                  calledAt |-> now,
                  calls |-> reqs[r].calls + 1] @@ reqs[r]]
            /\ UNCHANGED store
       ELSE /\ Finish(r, reqs[r].op, reqs[r].firebaseUid, "FitbitApiError", <<>>,
                      Counts(reqs[r].calls + 1, reqs[r].writes))
            /\ store' = saveTokensToFirestore(store, now, reqs[r].firebaseUid, "",
                                              TokenResponse(gen, ""))
            /\ UNCHANGED gen
  /\ UNCHANGED <<now, migVars>>

\* refreshFitbitAccessToken: the POST to the token endpoint and its answer.
\* On a 2xx answer saveTokensToFirestore(firebaseUid,
\* currentTokens.fitbitUserId, newTokens) is called: it reads the clock
\* (calledAt), builds tokenData and calls set().  set() validates tokenData
\* before it sends the write: for a fitbitUserId that is undefined it throws,
\* and the request ends with the error of the store without an await between.
RefreshFetch(r, ok) ==
  /\ reqs[r].pc = "refresh_fetch"
  /\ IF ok /\ ~Has(reqs[r].currentTokens, "fitbitUserId")
       THEN /\ gen' = gen + 1
            /\ Finish(r, reqs[r].op, reqs[r].firebaseUid, "StoreError", <<>>,
                      Counts(reqs[r].calls + 1, reqs[r].writes))
     ELSE IF ok
       THEN /\ gen' = gen + 1
            /\ reqs' = [reqs EXCEPT ![r] =
                 [pc |-> "refresh_save",
                  sent |-> reqs[r].currentTokens.refreshToken,
                  data |-> TokenResponse(gen + 1, ""),
                  calledAt |-> now,
                  calls |-> reqs[r].calls + 1] @@ reqs[r]]
       ELSE /\ Finish(r, reqs[r].op, reqs[r].firebaseUid, "FitbitApiError", <<>>,
                      Counts(reqs[r].calls + 1, reqs[r].writes))
            /\ UNCHANGED gen
  /\ UNCHANGED <<store, now, migVars>>

Apple == [foodName |-> "apple", amount |-> 1, unit |-> "g"]

\* a food without unit
Tea == [foodName |-> "tea", amount |-> 1]

\* !food.foodName || !food.amount || !food.unit
FoodIncomplete(food) ==
  ~Has(food, "foodName") \/ ~Has(food, "amount") \/ ~Has(food, "unit")

\* the foods arrays of the bodies that pass the test of index.js:91
HandlerFoods == {<<>>, <<Apple>>, <<Tea>>, <<Apple, Tea>>}

\* what the handler passed to processAndLogFoods in a call that sent a
\* request to the food API
FoodCall(q, accessToken) ==
  [accessToken |-> accessToken,
   fitbitUserId |-> q.tokens.fitbitUserId,
   refreshes |-> q.refreshes,
   foodCalls |-> 1]

\* index.js after the access token is chosen: the fitbitUserId of the tokens
\* read at the start is required, then processAndLogFoods is awaited.  It
\* throws ValidationError without awaiting an answer of the food API when
\* foods is empty or a food lacks a field; the create requests of the foods
\* that are complete are sent before it does.
HandlerContinue(r, q, accessToken) ==
  IF ~Has(q.tokens, "fitbitUserId")
    THEN Finish(r, "log", q.firebaseUid, "FitbitApiError", <<>>, Counts(q.calls, q.writes))
  ELSE IF q.foods = <<>>
    THEN Finish(r, "log", q.firebaseUid, "ValidationError", <<>>, Counts(q.calls, q.writes))
  ELSE IF \E i \in DOMAIN q.foods : FoodIncomplete(q.foods[i])
    THEN Finish(r, "log", q.firebaseUid, "ValidationError",
                IF \E i \in DOMAIN q.foods : ~FoodIncomplete(q.foods[i])
                  THEN FoodCall(q, accessToken) ELSE <<>>,
                Counts(q.calls, q.writes))
    ELSE reqs' = [reqs EXCEPT ![r] =
                    [pc |-> "log_foods", op |-> "log", firebaseUid |-> q.firebaseUid,
                     tokens |-> q.tokens, decidedAt |-> q.decidedAt,
                     refreshes |-> q.refreshes, accessToken |-> accessToken,
                     calls |-> q.calls, writes |-> q.writes]]

\* refreshFitbitAccessToken returns newTokens.access_token to its caller
RefreshReturn(r, q) ==
  IF q.op = "log"
    THEN HandlerContinue(r, q, q.data.access_token)
    ELSE Finish(r, "refresh", q.firebaseUid, "ok", q.data.access_token,
                Counts(q.calls, q.writes))

\* a refresh that saves the user id of the response, not the one on file
RefreshSaveTakesResponseId(r, ok) ==
  /\ reqs[r].pc = "refresh_save"
  /\ IF ok
       THEN /\ store' = saveTokensToFirestore(store, reqs[r].calledAt, reqs[r].firebaseUid,
                                              reqs[r].data.user_id, reqs[r].data)
            /\ RefreshReturn(r, [writes |-> reqs[r].writes + 1] @@ reqs[r])
       ELSE /\ Finish(r, reqs[r].op, reqs[r].firebaseUid, "StoreError", <<>>,
                      Counts(reqs[r].calls, reqs[r].writes))
            /\ UNCHANGED store
  /\ UNCHANGED <<now, gen, migVars>>

\* refreshFitbitAccessToken: the set() of saveTokensToFirestore(firebaseUid,
\* currentTokens.fitbitUserId, newTokens) returns or rejects; the document
\* written carries the expiresAt computed when saveTokensToFirestore was
\* called
RefreshSave(r, ok) ==
  /\ reqs[r].pc = "refresh_save"
  /\ IF ok
       THEN /\ store' = saveTokensToFirestore(store, reqs[r].calledAt, reqs[r].firebaseUid,
                                              reqs[r].currentTokens.fitbitUserId, reqs[r].data)
            /\ RefreshReturn(r, [writes |-> reqs[r].writes + 1] @@ reqs[r])
       ELSE /\ Finish(r, reqs[r].op, reqs[r].firebaseUid, "StoreError", <<>>,
                      Counts(reqs[r].calls, reqs[r].writes))
            /\ UNCHANGED store
  /\ UNCHANGED <<now, gen, migVars>>

(***************************************************************************)
(* The handler of a food-logging POST, src/index.js.                       *)
(***************************************************************************)

\* the token is taken as expired only after expiresAt has passed
HandlerStartLate(r, firebaseUid, foods, ok) ==
  /\ Free(r)
  /\ LET tokens == getTokensFromFirestore(store, firebaseUid)
         q == [op |-> "log", firebaseUid |-> firebaseUid, foods |-> foods,
               tokens |-> tokens, decidedAt |-> now, calls |-> 0, writes |-> 0]
     IN  IF ~ok
           THEN Finish(r, "log", firebaseUid, "StoreError", <<>>, Counts(0, 0))
         ELSE IF tokens = <<>>
           THEN Finish(r, "log", firebaseUid, "AuthenticationError", <<>>, Counts(0, 0))
         ELSE IF now > tokens.expiresAt
           THEN reqs' = [reqs EXCEPT ![r] = [pc |-> "refresh_read", refreshes |-> 1] @@ q]
         ELSE HandlerContinue(r, [refreshes |-> 0] @@ q, tokens.accessToken)
  /\ UNCHANGED <<store, now, gen, migVars>>

\* fitbitWebhookHandler, POST with the array foods in its body: the stored
\* tokens are read, or the get() rejects and the error of the store is
\* thrown; an expired token sends the handler into refreshFitbitAccessToken,
\* a valid one is used
HandlerStart(r, firebaseUid, foods, ok) ==
  /\ Free(r)
  /\ LET tokens == getTokensFromFirestore(store, firebaseUid)
         q == [op |-> "log", firebaseUid |-> firebaseUid, foods |-> foods,
               tokens |-> tokens, decidedAt |-> now, calls |-> 0, writes |-> 0]
     IN  IF ~ok
           THEN Finish(r, "log", firebaseUid, "StoreError", <<>>, Counts(0, 0))
         ELSE IF tokens = <<>>
           THEN Finish(r, "log", firebaseUid, "AuthenticationError", <<>>, Counts(0, 0))
         ELSE IF now >= tokens.expiresAt
           THEN reqs' = [reqs EXCEPT ![r] = [pc |-> "refresh_read", refreshes |-> 1] @@ q]
         ELSE HandlerContinue(r, [refreshes |-> 0] @@ q, tokens.accessToken)
  /\ UNCHANGED <<store, now, gen, migVars>>

\* processAndLogFoods(accessToken, nutritionData, fitbitUserId), every food
\* complete: the answers of the food API, and the response
HandlerLogFoods(r, ok) ==
  /\ reqs[r].pc = "log_foods"
  /\ Finish(r, "log", reqs[r].firebaseUid, IF ok THEN "ok" ELSE "FitbitApiError",
            FoodCall(reqs[r], reqs[r].accessToken),
            Counts(reqs[r].calls, reqs[r].writes))
  /\ UNCHANGED <<store, now, gen, migVars>>

\* the clock
Tick ==
  /\ now < MaxTicks * 1000
  /\ now' = now + 1000
  /\ UNCHANGED <<store, gen, reqs, migVars>>

\* the exchanges served in the slots R, the provider issuing at most limit
\* token responses
ExchangeNext(R, limit) ==
  \/ \E r \in R, u \in Uids, f \in Fids, ok \in BOOLEAN :
       (ok => gen < limit) /\ ExchangeFetch(r, u, f, ok)
  \/ \E r \in R, ok \in BOOLEAN : ExchangeSave(r, ok)

\* the refreshes served in the slots R, called on their own or by the handler
RefreshNext(R, limit) ==
  \/ \E r \in R, u \in Uids, ok \in BOOLEAN : RefreshRead(r, u, ok)
  \/ \E r \in R, ok \in BOOLEAN : (ok => gen < limit) /\ RefreshFetch(r, ok)
  \/ \E r \in R, ok \in BOOLEAN : RefreshSave(r, ok)

\* the requests served in the slots R, the provider issuing at most limit
\* token responses
LiveNext(R, limit) == ExchangeNext(R, limit) \/ RefreshNext(R, limit)

\* the food-logging requests served in the slots R
HandlerNext(R) ==
  \/ \E r \in R, u \in Uids, foods \in HandlerFoods, ok \in BOOLEAN :
       HandlerStart(r, u, foods, ok)
  \/ \E r \in R, ok \in BOOLEAN : HandlerLogFoods(r, ok)

\* the script, started at most limit times
MigNext(limit) ==
  \/ \E env \in DryRunEnvs, readOk \in BOOLEAN : runs < limit /\ MigrateStart(env, readOk)
  \/ MigrateSkip
  \/ MigrateWrite
  \/ MigrateWriteFails
  \/ MigrateDryRun
  \/ MigrateSummary

\* the migration alone, killed at any point and started again: no live traffic
SpecMig == Init /\ [][MigNext(MaxRuns) \/ \E applied \in BOOLEAN : MigrateKill(applied)]_vars

\* the contents the live path reads: records keyed by Firebase UID.  The
\* record of u1 is complete, or lacks fitbitUserId, or lacks refreshToken;
\* the record of u2 is complete.  Either may be missing.
HandlerStores ==
  {s \in InitStores :
     /\ DOMAIN s \subseteq Uids
     /\ \A u \in DOMAIN s : Has(s[u], "fitbitUserId") => s[u].fitbitUserId = "f1"
     /\ "u2" \in DOMAIN s => IsLegacy(s["u2"])}

InitHandler == Init /\ store \in HandlerStores

\* the live path alone: MaxReq requests in flight, each begun in the first
\* free slot, the clock running
SpecLive ==
  /\ InitHandler
  /\ [][\/ \E r \in 1..MaxReq :
            FirstFree(r) /\ (LiveNext({r}, MaxGenLive) \/ HandlerNext({r}))
        \/ Tick]_vars

\* two requests in flight at once
InitRace ==
  /\ store \in HandlerStores
  /\ now = 0
  /\ gen = 0
  /\ reqs = <<Idle, Idle>>
  /\ runs = 0
  /\ migPc = "idle"
  /\ DRY_RUN_ENV = "unset"
  /\ snapshot = <<>>
  /\ idx = 1
  /\ migratedCount = 0
  /\ skippedCount = 0
  /\ errorCount = 0
  /\ log = <<>>
  /\ hist = <<>>
  /\ getError = FALSE
  /\ exitSite = "none"
  /\ killed = <<>>

\* two requests that read and refresh stored tokens, interleaved at every
\* await: food-logging POSTs and calls of refreshFitbitAccessToken
SpecRace ==
  InitRace /\ [][RefreshNext({1, 2}, MaxGen) \/ HandlerNext({1, 2}) \/ Tick]_vars

\* the contents beside which the script runs
LiveStores ==
  {s \in InitStores :
     /\ "f2" \notin DOMAIN s
     /\ \A u \in DOMAIN s \cap Uids : IsLegacy(s[u]) /\ s[u].fitbitUserId = "f1"}

InitLive == Init /\ store \in LiveStores

\* live traffic and the migration together: one request at a time, with
\* MaxGenMig token responses, beside MaxRunsLive runs of the script
Next == LiveNext({1}, MaxGenMig) \/ MigNext(MaxRunsLive)

Spec == InitLive /\ [][Next]_vars

\* one run of the script beside the live path, the script going on whenever
\* it has a step to take: every store call it awaits returns or fails
SpecFair ==
  /\ InitLive
  /\ [][LiveNext({1}, MaxGenMig) \/ MigNext(1)]_vars
  /\ WF_vars(MigNext(1))

\* two requests in flight beside the script
InitWriters ==
  /\ store \in LiveStores
  /\ now = 0
  /\ gen = 0
  /\ reqs = <<Idle, Idle>>
  /\ runs = 0
  /\ migPc = "idle"
  /\ DRY_RUN_ENV = "unset"
  /\ snapshot = <<>>
  /\ idx = 1
  /\ migratedCount = 0
  /\ skippedCount = 0
  /\ errorCount = 0
  /\ log = <<>>
  /\ hist = <<>>
  /\ getError = FALSE
  /\ exitSite = "none"
  /\ killed = <<>>

\* the writers of the store: two exchanges or refreshes, one in each of the
\* slots 1 and 2, the second begun while the first is in flight or after it
\* has ended, and the script, started at most runsLimit times
WritersNext(runsLimit) ==
  \/ \E r \in {1, 2} : reqs[r].pc # "done" /\ LiveNext({r}, MaxGen)
  \/ MigNext(runsLimit)

\* the writers of the store together: the saves of two requests, one after
\* the other or interleaved at every await, and the writes of the script
SpecWriters == InitWriters /\ [][WritersNext(MaxRunsLive)]_vars

(***************************************************************************)
(* Errors and the response to a failed request: src/errors.js and the      *)
(* catch of fitbitWebhookHandler.  A message is the sequence of its parts, *)
(* and includes a part when the part is one of them.                       *)
(***************************************************************************)

Includes(message, part) == part \in Range(message)

\* new Error(message): an error without statusCode
NewError(message) == [name |-> "Error", message |-> message]

\* the subclasses of CustomError, each with its default statusCode
AuthenticationError(message) ==
  [name |-> "AuthenticationError", message |-> message, statusCode |-> 401]

ValidationError(message) ==
  [name |-> "ValidationError", message |-> message, statusCode |-> 400]

FitbitApiError(message) ==
  [name |-> "FitbitApiError", message |-> message, statusCode |-> 500]

MethodNotAllowedError(message) ==
  [name |-> "MethodNotAllowedError", message |-> message, statusCode |-> 405]

\* what the handler sends: res.status(status).send(body),
\* res.status(status).json(body), res.redirect(status, url); sent lists the
\* sending methods called on res
Send(status, body) == [status |-> status, body |-> body, sent |-> <<"send">>]

Json(status, body) == [status |-> status, body |-> body, sent |-> <<"json">>]

Redirect(status, url) == [status |-> status, body |-> url, sent |-> <<"redirect">>]

\* res.status(status).json({error: message})
ErrorResponse(status, message) == Json(status, [error |-> message])

\* a catch that answers by statusCode alone
CatchByStatusCode(error) ==
  IF Has(error, "statusCode") THEN ErrorResponse(error.statusCode, error.message)
  ELSE ErrorResponse(500, error.message)

\* the catch block: the statusCode of the error if it has one, 401 for a
\* message that includes 'ID token' or 'Unauthorized', 500 otherwise
Catch(error) ==
  IF Has(error, "statusCode") THEN ErrorResponse(error.statusCode, error.message)
  ELSE IF Includes(error.message, "ID token") \/ Includes(error.message, "Unauthorized")
    THEN ErrorResponse(401, error.message)
  ELSE ErrorResponse(500, IF error.message = <<>>
                            THEN <<"An internal server error occurred.">>
                            ELSE error.message)

(***************************************************************************)
(* verifyFirebaseIdToken, src/firebase.js.  A JavaScript value that is     *)
(* null or a string is <<>> or the one-element sequence of the string.     *)
(***************************************************************************)

\* !v for a value that is null or a string
Falsy(v) == v = <<>> \/ v = <<"">>

\* the ID tokens that admin.auth().verifyIdToken accepts, with what it decodes
DecodedTokens == ("idtoken-u1" :> [uid |-> "u1"]) @@ ("idtoken-u2" :> [uid |-> "u2"])

\* what a call leaves: the value returned or the error thrown (<<>> when
\* there is none), and the calls it made
Return(value, trace) == [value |-> value, thrown |-> <<>>, trace |-> trace]

Throw(error, trace) == [value |-> <<>>, thrown |-> error, trace |-> trace]

\* a verification that takes every token that is present for u1's
verifyAnyIdToken(idToken) ==
  IF Falsy(idToken)
    THEN Throw(NewError(<<"ID token", " is required.">>), <<>>)
  ELSE Return([uid |-> "u1"], <<"verifyIdToken">>)

\* verifyFirebaseIdToken(idToken): a missing token is refused before the
\* verifier is called; the verifier decodes the token or rejects it
verifyFirebaseIdToken(idToken) ==
  IF Falsy(idToken)
    THEN Throw(NewError(<<"ID token", " is required.">>), <<>>)
  ELSE IF idToken[1] \in DOMAIN DecodedTokens
    THEN Return(DecodedTokens[idToken[1]], <<"verifyIdToken">>)
  ELSE Throw(NewError(<<"Invalid ", "ID token", ".">>), <<"verifyIdToken">>)

(***************************************************************************)
(* fitbitWebhookHandler, src/index.js, from the request to the response.   *)
(* The handler is an async function: it runs until it awaits a service     *)
(* (Secret Manager, the verifier, the store, the token endpoint, the food  *)
(* API) and goes on when the service answers.  Each action below is the    *)
(* code between two such points, for the request in slot r; the requests   *)
(* in the other slots take their steps in between.                         *)
(***************************************************************************)

\* a decoding that takes any text for the state of u1
DecodeStateLenient(state) ==
  [ok |-> TRUE, value |-> IF Has(state, "json") THEN state.json ELSE [firebaseUid |-> "u1"]]

\* JSON.parse(Buffer.from(state, 'base64').toString('utf8')): state is
\* [json |-> v] when it is the base64 of the JSON text of v
DecodeState(state) ==
  IF Has(state, "json") THEN [ok |-> TRUE, value |-> state.json]
  ELSE [ok |-> FALSE, value |-> <<>>]

\* the food items of a body: foods is [array |-> is it an array, items]
FoodsMissing(nutritionData) ==
  nutritionData = <<>> \/ ~Has(nutritionData, "foods") \/ ~nutritionData.foods.array

\* a test that lets the empty array pass
FoodsMissingOnly(nutritionData) == FoodsMissing(nutritionData)

\* !nutritionData.foods || !Array.isArray(nutritionData.foods)
\*   || nutritionData.foods.length === 0
FoodsMissingOrEmpty(nutritionData) ==
  FoodsMissing(nutritionData) \/ nutritionData.foods.items = <<>>

\* the request req as the handler holds it when it arrives: no call made,
\* nothing read, nothing sent.  trace lists the calls in the order they are
\* made; firebaseUid, tokens, accessToken are the handler's variables, at
\* the time of its expiry test; currentTokens, data (newTokens) and calledAt
\* (the clock read by saveTokensToFirestore) those of the exchange or
\* refresh it awaits; issued and writes count the token responses it was
\* given and the writes it made.
Arrived(req) ==
  [pc |-> "secrets", op |-> "http", req |-> req, trace |-> <<>>,
   firebaseUid |-> "", tokens |-> <<>>, at |-> -1, accessToken |-> <<>>,
   currentTokens |-> <<>>, data |-> <<>>, calledAt |-> -1,
   issued |-> 0, writes |-> 0,
   status |-> 0, body |-> <<>>, sent |-> <<>>, error |-> <<>>]

\* the request q makes the calls listed
Called(q, calls) == [q EXCEPT !.trace = @ \o calls]

\* the handler answers and returns
Handled(q, response, error) ==
  [q EXCEPT !.pc = "done", !.status = response.status, !.body = response.body,
            !.sent = @ \o response.sent, !.error = error]

\* an error that no catch takes: the handler ends without an answer
Uncaught(q, error) == [q EXCEPT !.pc = "done", !.error = error]

\* the handler leaves the try block with the error thrown and answers in
\* its catch block
Caught(q, error) == Handled(q, Catch(error), error)

\* the texts that new URL(redirectUri) takes; it throws TypeError for any other
AbsoluteUrls == {"http://localhost/callback"}

TypeError(message) == [name |-> "TypeError", message |-> message]

\* processAndLogFoods up to its first await: the argument checks, then the
\* requests to the food API.  A food that lacks a field rejects the call
\* before an answer of the food API is awaited.
LogFoods(nutritionData) ==
  IF FoodsMissingOrEmpty(nutritionData)
    THEN Throw(ValidationError(<<"Invalid input: \"foods\" array is missing or empty.">>),
               <<>>)
  ELSE IF \E i \in DOMAIN nutritionData.foods.items :
            FoodIncomplete(nutritionData.foods.items[i])
    THEN Throw(ValidationError(<<"Missing required field for food log">>),
               IF \E i \in DOMAIN nutritionData.foods.items :
                    ~FoodIncomplete(nutritionData.foods.items[i])
                 THEN <<"food_api">> ELSE <<>>)
  ELSE Return(<<>>, <<"food_api">>)

\* a header test that lets every header pass that is present
NotBearerOnlyAbsent(authHeader) == authHeader = <<>>

\* !authHeader || !authHeader.startsWith('Bearer ')
NotBearer(authHeader) == authHeader = <<>> \/ authHeader[1] # "Bearer "

\* authHeader.split('Bearer ')[1]
BearerToken(authHeader) == IF Len(authHeader) >= 2 THEN <<authHeader[2]>> ELSE <<"">>

\* the missing record reported as a resource that was not found
NoTokensNotFound(firebaseUid) ==
  [name |-> "NotFoundError",
   message |-> <<"No tokens found for user ", firebaseUid, ".">>,
   statusCode |-> 404]

\* the error of a POST whose owner has no record
NoTokensFound(firebaseUid) ==
  AuthenticationError(<<"No tokens found for user ", firebaseUid,
                        ". Please complete the OAuth flow.">>)

\* a handler that takes every record to carry the Fitbit user id
FitbitUserIdNeverMissing(tokens) == FALSE

\* !tokens.fitbitUserId
FitbitUserIdMissing(tokens) == ~Has(tokens, "fitbitUserId")

\* the requests: OPTIONS, PUT, GET without a code, the OAuth callback with
\* every kind of state, POST with every kind of header and body; a header
\* that carries no ID token of an owner comes without a body and with a list
\* of foods
CallbackStates ==
  {<<>>, [raw |-> "invalid-state"], [json |-> [redirectUri |-> "http://localhost/callback"]]}
    \cup {[json |-> [firebaseUid |-> u]] : u \in Uids}
    \cup {[json |-> [firebaseUid |-> u, redirectUri |-> "http://localhost/callback"]] :
            u \in Uids}
    \cup {[json |-> [firebaseUid |-> "u1", redirectUri |-> "/callback"]]}

AuthHeaders ==
  {<<>>, <<"Basic ", "idtoken-u1">>, <<"Bearer ">>, <<"Bearer ", "forged">>}
    \cup {<<"Bearer ", tok>> : tok \in DOMAIN DecodedTokens}

Bodies ==
  {<<>>,
   [wrong |-> "body"],
   [meal_type |-> "Dinner", foods |-> [array |-> FALSE, items |-> <<>>]],
   [meal_type |-> "Dinner", foods |-> [array |-> TRUE, items |-> <<>>]],
   [meal_type |-> "Dinner", foods |-> [array |-> TRUE, items |-> <<Apple>>]]}

Posts ==
  {[method |-> "POST", query |-> <<>>, authorization |-> h, body |-> b] :
     h \in AuthHeaders, b \in Bodies}

HttpRequests ==
  {[method |-> m, query |-> <<>>, authorization |-> <<>>, body |-> <<>>] :
     m \in {"OPTIONS", "PUT", "GET"}}
    \cup {[method |-> "GET", query |-> [code |-> "auth-code"],
           authorization |-> <<>>, body |-> <<>>]}
    \cup {[method |-> "GET", query |-> [code |-> "auth-code", state |-> st],
           authorization |-> <<>>, body |-> <<>>] : st \in CallbackStates}
    \cup {q \in Posts :
             \/ q.authorization \in {<<"Bearer ", tok>> : tok \in DOMAIN DecodedTokens}
             \/ q.body = <<>>
             \/ Has(q.body, "foods") /\ q.body.foods.items # <<>>}

\* the message a rejected store call carries: a status line of the client
StoreMessages ==
  {<<"16 UNAUTHENTICATED: ", "Request had invalid authentication credentials.">>}

\* what the store answers to a call: it carries the call out (<<>>), or
\* rejects it with a message
StoreAnswers == {<<>>} \cup StoreMessages

\* fitbitWebhookHandler(req, res) is called with the request req: OPTIONS is
\* answered at once, every other request asks Secret Manager for the client
\* id and the client secret and awaits the two answers
fitbitWebhookHandler(r, req) ==
  /\ reqs[r].pc = "idle"
  /\ \A p \in 1..(r - 1) : reqs[p].pc # "idle"
  /\ reqs' = [reqs EXCEPT ![r] =
       IF req.method = "OPTIONS"
         THEN Handled(Arrived(req), Send(204, <<>>), <<>>)
         ELSE Called(Arrived(req), <<"accessSecretVersion", "accessSecretVersion">>)]
  /\ UNCHANGED <<store, now, gen, migVars>>

\* GET with a code, the OAuth callback, up to the request that
\* exchangeCodeForTokens sends to the token endpoint
HttpCallback(q) ==
  IF ~Has(q.req.query, "state") \/ q.req.query.state = <<>>
    THEN Caught(q, ValidationError(<<"Invalid request: state parameter is missing.">>))
  ELSE LET decodedState == DecodeState(q.req.query.state) IN
    IF ~decodedState.ok
      THEN Caught(q, ValidationError(<<"Invalid state: could not decode state parameter.">>))
    ELSE IF ~Has(decodedState.value, "firebaseUid")
      THEN Caught(q, ValidationError(<<"Invalid state: Firebase UID is missing.">>))
    ELSE [Called(q, <<"exchangeCodeForTokens", "token_endpoint">>)
            EXCEPT !.pc = "exchange_fetch",
                   !.firebaseUid = decodedState.value.firebaseUid]

\* POST, the food-logging request, up to the call of the verifier.
\* verifyFirebaseIdToken refuses a missing token without calling the verifier.
HttpPost(q) ==
  IF NotBearer(q.req.authorization)
    THEN Caught(q, AuthenticationError(
                     <<"Unauthorized", ": Authorization header is missing or invalid.">>))
  ELSE LET verified == verifyFirebaseIdToken(BearerToken(q.req.authorization)) IN
    IF verified.trace = <<>>
      THEN Caught(Called(q, <<"verifyFirebaseIdToken">>), verified.thrown)
      ELSE [Called(q, <<"verifyFirebaseIdToken">> \o verified.trace)
              EXCEPT !.pc = "verify"]

\* the two accessSecretVersion calls are answered: a failed one throws the
\* Error of secrets.js; otherwise the handler goes by the method of the request
HttpSecrets(r, ok) ==
  /\ reqs[r].pc = "secrets"
  /\ reqs' = [reqs EXCEPT ![r] =
       IF ~ok
         THEN Caught(reqs[r], NewError(<<"Failed to access secret. Check IAM permissions.">>))
       ELSE IF reqs[r].req.method = "GET" /\ Has(reqs[r].req.query, "code")
         THEN HttpCallback(reqs[r])
       ELSE IF reqs[r].req.method = "POST"
         THEN HttpPost(reqs[r])
       ELSE Caught(reqs[r], MethodNotAllowedError(<<"Method Not Allowed">>))]
  /\ UNCHANGED <<store, now, gen, migVars>>

\* the verifier answers: a rejected token throws; the uid of an accepted
\* one is the owner, the body is tested, and the record of the owner is
\* asked of the store
HttpVerify(r) ==
  /\ reqs[r].pc = "verify"
  /\ LET q == reqs[r]
         verified == verifyFirebaseIdToken(BearerToken(q.req.authorization))
     IN  reqs' = [reqs EXCEPT ![r] =
           IF verified.thrown # <<>> THEN Caught(q, verified.thrown)
           ELSE IF FoodsMissing(q.req.body)
             THEN Caught([q EXCEPT !.firebaseUid = verified.value.uid],
                         ValidationError(<<"Invalid JSON body.">>))
           ELSE [Called(q, <<"getTokensFromFirestore">>)
                   EXCEPT !.pc = "read", !.firebaseUid = verified.value.uid]]
  /\ UNCHANGED <<store, now, gen, migVars>>

\* index.js once the access token is chosen: the fitbitUserId of the record
\* the handler read is required, then processAndLogFoods is called
HttpLog(q, accessToken) ==
  IF FitbitUserIdMissing(q.tokens)
    THEN Caught(q, FitbitApiError(<<"Fitbit user ID not found in the database.">>))
  ELSE LET logged == LogFoods(q.req.body)
           q1 == Called(q, <<"processAndLogFoods">> \o logged.trace)
       IN  IF logged.thrown # <<>> THEN Caught(q1, logged.thrown)
           ELSE [q1 EXCEPT !.pc = "log_foods", !.accessToken = accessToken]

\* the store answers the read of the handler with message m: a rejected
\* read throws, no record throws NoTokensFound; a record whose expiresAt has
\* come sends the handler into refreshFitbitAccessToken, which asks the store
\* for the record again; a record in date gives the access token
HttpRead(r, m) ==
  /\ reqs[r].pc = "read"
  /\ LET q == reqs[r]
         tokens == getTokensFromFirestore(store, q.firebaseUid)
     IN  reqs' = [reqs EXCEPT ![r] =
           IF m # <<>> THEN Caught(q, NewError(m))
           ELSE IF tokens = <<>> THEN Caught(q, NoTokensFound(q.firebaseUid))
           ELSE IF now >= tokens.expiresAt
             THEN [Called(q, <<"refreshFitbitAccessToken", "getTokensFromFirestore">>)
                     EXCEPT !.pc = "refresh_read", !.tokens = tokens, !.at = now]
           ELSE HttpLog([q EXCEPT !.tokens = tokens, !.at = now], tokens.accessToken)]
  /\ UNCHANGED <<store, now, gen, migVars>>

\* refreshFitbitAccessToken: the store answers its read with message m; with
\* a record that has a refreshToken the token endpoint is asked
HttpRefreshRead(r, m) ==
  /\ reqs[r].pc = "refresh_read"
  /\ LET q == reqs[r]
         currentTokens == getTokensFromFirestore(store, q.firebaseUid)
     IN  reqs' = [reqs EXCEPT ![r] =
           IF m # <<>> THEN Caught(q, NewError(m))
           ELSE IF currentTokens = <<>> \/ ~Has(currentTokens, "refreshToken")
             THEN Caught(q, AuthenticationError(
                              <<"No refresh token found for user. Please re-authenticate.">>))
           ELSE [Called(q, <<"token_endpoint">>)
                   EXCEPT !.pc = "refresh_fetch", !.currentTokens = currentTokens]]
  /\ UNCHANGED <<store, now, gen, migVars>>

\* a refresh whose store takes a tokenData with an undefined fitbitUserId
\* and leaves the field out
HttpRefreshFetchIgnoringUndefined(r, ok) ==
  /\ reqs[r].pc = "refresh_fetch"
  /\ LET q == reqs[r]
         q1 == [Called(q, <<"saveTokensToFirestore">>)
                  EXCEPT !.data = TokenResponse(gen + 1, ""), !.calledAt = now,
                         !.issued = @ + 1]
     IN  IF ~ok
           THEN /\ reqs' = [reqs EXCEPT ![r] =
                     Caught(q, FitbitApiError(<<"Fitbit API Refresh Error: ", "Unknown">>))]
                /\ UNCHANGED <<store, gen>>
         ELSE IF ~Has(q.currentTokens, "fitbitUserId")
           THEN /\ gen' = gen + 1
                /\ store' = SetMerge(store, q.firebaseUid,
                                     [accessToken |-> q1.data.access_token,
                                      refreshToken |-> q1.data.refresh_token,
                                      expiresAt |-> now + (q1.data.expires_in * 1000),
                                      firebaseUid |-> q.firebaseUid],
                                     <<>>)
                /\ reqs' = [reqs EXCEPT ![r] =
                     HttpLog([q1 EXCEPT !.writes = @ + 1], q1.data.access_token)]
           ELSE /\ gen' = gen + 1
                /\ reqs' = [reqs EXCEPT ![r] = [q1 EXCEPT !.pc = "refresh_save"]]
                /\ UNCHANGED store
  /\ UNCHANGED <<now, migVars>>

\* refreshFitbitAccessToken: the token endpoint answers.  A non-2xx answer
\* throws.  On a 2xx answer saveTokensToFirestore(firebaseUid,
\* currentTokens.fitbitUserId, newTokens) is called: it reads the clock
\* (calledAt), builds tokenData and calls set(), which validates tokenData
\* before it sends the write and throws for a fitbitUserId that is undefined.
HttpRefreshFetch(r, ok) ==
  /\ reqs[r].pc = "refresh_fetch"
  /\ LET q == reqs[r]
         q1 == [Called(q, <<"saveTokensToFirestore">>)
                  EXCEPT !.data = TokenResponse(gen + 1, ""), !.calledAt = now,
                         !.issued = @ + 1]
     IN  IF ~ok
           THEN /\ reqs' = [reqs EXCEPT ![r] =
                     Caught(q, FitbitApiError(<<"Fitbit API Refresh Error: ", "Unknown">>))]
                /\ UNCHANGED gen
         ELSE IF ~Has(q.currentTokens, "fitbitUserId")
           THEN /\ gen' = gen + 1
                /\ reqs' = [reqs EXCEPT ![r] =
                     Caught(q1, NewError(<<"Cannot use \"undefined\" as a Firestore value.">>))]
           ELSE /\ gen' = gen + 1
                /\ reqs' = [reqs EXCEPT ![r] = [q1 EXCEPT !.pc = "refresh_save"]]
  /\ UNCHANGED <<store, now, migVars>>

\* refreshFitbitAccessToken: the store answers the set() with message m; a
\* rejected write throws, a write carried out leaves the record with the
\* expiresAt computed when saveTokensToFirestore was called, and the handler
\* goes on with newTokens.access_token
HttpRefreshSave(r, m) ==
  /\ reqs[r].pc = "refresh_save"
  /\ LET q == reqs[r] IN
       IF m # <<>>
         THEN /\ reqs' = [reqs EXCEPT ![r] = Caught(q, NewError(m))]
              /\ UNCHANGED store
         ELSE /\ store' = saveTokensToFirestore(store, q.calledAt, q.firebaseUid,
                                                q.currentTokens.fitbitUserId, q.data)
              /\ reqs' = [reqs EXCEPT ![r] =
                   HttpLog([q EXCEPT !.writes = @ + 1], q.data.access_token)]
  /\ UNCHANGED <<now, gen, migVars>>

\* what the food API answered to the requests of a call: 2xx to each, or
\* non-2xx first to a create request, or first to a log request
FoodAnswers == {"ok", "create", "log"}

\* processAndLogFoods, every food complete: the food API has answered the
\* requests of the call.  The first non-2xx answer, to the create or to the
\* log request of food i, throws the error that names the request and the
\* food; with 2xx answers to every request the handler answers 200.
HttpLogFoods(r, i, answer) ==
  /\ reqs[r].pc = "log_foods"
  /\ i \in DOMAIN reqs[r].req.body.foods.items
  /\ reqs' = [reqs EXCEPT ![r] =
       IF answer = "ok"
         THEN Handled(reqs[r],
                      Json(200, [message |-> <<"All foods logged successfully to Fitbit.">>]),
                      <<>>)
       ELSE IF answer = "create"
         THEN Caught(reqs[r], FitbitApiError(<<"Failed to create food ",
                                               reqs[r].req.body.foods.items[i].foodName>>))
         ELSE Caught(reqs[r], FitbitApiError(<<"Failed to log food ",
                                               reqs[r].req.body.foods.items[i].foodName>>))]
  /\ UNCHANGED <<store, now, gen, migVars>>

\* exchangeCodeForTokens: the token endpoint answers, with the tokens of
\* Fitbit user f when 2xx.  A non-2xx answer throws.  On a 2xx answer
\* saveTokensToFirestore(firebaseUid, data.user_id, data) is called: it reads
\* the clock (calledAt), builds tokenData and awaits set().
HttpExchangeFetch(r, f, ok) ==
  /\ reqs[r].pc = "exchange_fetch"
  /\ IF ok
       THEN /\ gen' = gen + 1
            /\ reqs' = [reqs EXCEPT ![r] =
                 [Called(reqs[r], <<"saveTokensToFirestore">>)
                    EXCEPT !.pc = "exchange_save", !.data = TokenResponse(gen + 1, f),
                           !.calledAt = now, !.issued = @ + 1]]
       ELSE /\ reqs' = [reqs EXCEPT ![r] =
                 Caught(reqs[r], FitbitApiError(<<"Failed to exchange code for tokens.">>))]
            /\ UNCHANGED gen
  /\ UNCHANGED <<store, now, migVars>>

\* the handler after exchangeCodeForTokens has returned: the redirect to the
\* URL of redirectUri with the search parameter uid set, or the page
HttpRedirect(q) ==
  LET decodedState == DecodeState(q.req.query.state) IN
    IF Has(decodedState.value, "redirectUri")
      THEN IF decodedState.value.redirectUri \notin AbsoluteUrls
             THEN Caught(q, TypeError(<<"Invalid URL">>))
           ELSE Handled(q, Redirect(302, [url |-> decodedState.value.redirectUri,
                                          uid |-> q.firebaseUid]),
                        <<>>)
    ELSE Handled(q, Send(200, [uid |-> q.firebaseUid]), <<>>)

\* an exchange that does not await its save: a rejected write goes unseen
HttpExchangeSaveUnawaited(r, m) ==
  /\ reqs[r].pc = "exchange_save"
  /\ LET q == reqs[r] IN
       IF m # <<>>
         THEN /\ reqs' = [reqs EXCEPT ![r] = HttpRedirect(q)]
              /\ UNCHANGED store
         ELSE /\ store' = saveTokensToFirestore(store, q.calledAt, q.firebaseUid,
                                                q.data.user_id, q.data)
              /\ reqs' = [reqs EXCEPT ![r] = HttpRedirect([q EXCEPT !.writes = @ + 1])]
  /\ UNCHANGED <<now, gen, migVars>>

\* exchangeCodeForTokens: the store answers the set() with message m; a
\* rejected write throws, a write carried out leaves the record of
\* firebaseUid with the tokens and the user_id of the answer, and the
\* handler sends the redirect or the page
HttpExchangeSave(r, m) ==
  /\ reqs[r].pc = "exchange_save"
  /\ LET q == reqs[r] IN
       IF m # <<>>
         THEN /\ reqs' = [reqs EXCEPT ![r] = Caught(q, NewError(m))]
              /\ UNCHANGED store
         ELSE /\ store' = saveTokensToFirestore(store, q.calledAt, q.firebaseUid,
                                                q.data.user_id, q.data)
              /\ reqs' = [reqs EXCEPT ![r] = HttpRedirect([q EXCEPT !.writes = @ + 1])]
  /\ UNCHANGED <<now, gen, migVars>>

\* a service answers the request in slot r, and the handler goes on
HttpStep(r) ==
  \/ \E ok \in BOOLEAN : HttpSecrets(r, ok)
  \/ HttpVerify(r)
  \/ \E m \in StoreAnswers : HttpRead(r, m)
  \/ \E m \in StoreAnswers : HttpRefreshRead(r, m)
  \/ \E ok \in BOOLEAN : HttpRefreshFetch(r, ok)
  \/ \E m \in StoreAnswers : HttpRefreshSave(r, m)
  \/ \E i \in 1..MaxFoods, answer \in FoodAnswers : HttpLogFoods(r, i, answer)
  \/ \E f \in Fids, ok \in BOOLEAN : HttpExchangeFetch(r, f, ok)
  \/ \E m \in StoreAnswers : HttpExchangeSave(r, m)

\* the requests served in the slots R, one in each
HttpNext(R) ==
  \/ \E r \in R, req \in HttpRequests : fitbitWebhookHandler(r, req)
  \/ \E r \in R : HttpStep(r)

\* the HTTP function serving two requests, interleaved at every await, the
\* clock running
SpecHttp == InitRace /\ [][HttpNext({1, 2}) \/ Tick]_vars

\* the HTTP function serving two requests, the clock running, every service
\* answering each call it was sent
SpecHttpFair ==
  /\ InitRace
  /\ [][HttpNext({1, 2}) \/ Tick]_vars
  /\ \A r \in {1, 2} : WF_vars(HttpStep(r))

(***************************************************************************)
(* processAndLogFoods, src/fitbit.js.  Every food of the list is handled   *)
(* by its own async function: each runs to its first fetch when the list   *)
(* is mapped, and they go on interleaved as the answers arrive.            *)
(***************************************************************************)

Rice == [foodName |-> "rice", amount |-> 2, unit |-> "g"]

FoodItems == {Apple, Rice, Tea}

\* the foodId values the food API returns for a created food
FoodIds == {"12345", "67890"}

FoodLists == UNION {[1..n -> FoodItems] : n \in 0..MaxFoods}

\* the nutritionData the function is called with: foods missing, not an
\* array, or a list of foods
NutritionData ==
  {[meal_type |-> "Lunch"],
   [meal_type |-> "Lunch", foods |-> [array |-> FALSE, items |-> <<>>]]}
    \cup {[meal_type |-> "Lunch", foods |-> [array |-> TRUE, items |-> l]] : l \in FoodLists}

\* the POST to /1/user/{fitbitUserId}/foods.json for the food at index i
CreateRequest(fitbitUserId, i) ==
  [url |-> "foods.json", user |-> fitbitUserId, item |-> i, foodId |-> ""]

\* a log request that carries the index of the food as its foodId
LogRequestOfIndex(fitbitUserId, i, createFoodResult) ==
  [url |-> "foods/log.json", user |-> fitbitUserId, item |-> i,
   foodId |-> IF i = 1 THEN "12345" ELSE "67890"]

\* the POST to /1/user/{fitbitUserId}/foods/log.json with
\* foodId = createFoodResult.food.foodId
LogRequest(fitbitUserId, i, createFoodResult) ==
  [url |-> "foods/log.json", user |-> fitbitUserId, item |-> i,
   foodId |-> createFoodResult.food.foodId]

\* the promise of one food: its position, the foodId its create returned,
\* the step that rejected it
Promise(pc, foodId, failed) == [pc |-> pc, foodId |-> foodId, failed |-> failed]

Pending == [state |-> "pending", error |-> <<>>]

\* Promise.all(logPromises): rejected with the first rejection, fulfilled
\* when every promise is
PromiseAll(result, promises, rejection) ==
  IF result.state # "pending" THEN result
  ELSE IF rejection # <<>> THEN [state |-> "rejected", error |-> rejection]
  ELSE IF \A i \in DOMAIN promises : promises[i].pc = "fulfilled"
    THEN [state |-> "fulfilled", error |-> <<>>]
  ELSE result

\* the call is over when no promise is waiting for an answer
CallPc(promises) ==
  IF \A i \in DOMAIN promises : promises[i].pc \in {"fulfilled", "rejected"}
    THEN "done" ELSE "foods"

\* the create requests that the mapping of foods issues, in the order of the list
RECURSIVE CreateRequests(_, _, _)
CreateRequests(foods, fitbitUserId, i) ==
  IF i > Len(foods) THEN <<>>
  ELSE IF FoodIncomplete(foods[i]) THEN CreateRequests(foods, fitbitUserId, i + 1)
  ELSE <<CreateRequest(fitbitUserId, i)>> \o CreateRequests(foods, fitbitUserId, i + 1)

\* the error of the first food of the list that lacks a field, <<>> if none does
FirstIncomplete(foods) ==
  IF \E i \in DOMAIN foods : FoodIncomplete(foods[i])
    THEN ValidationError(<<"Missing required field for food log: ",
                           foods[CHOOSE i \in DOMAIN foods :
                                   /\ FoodIncomplete(foods[i])
                                   /\ \A j \in 1..(i - 1) : ~FoodIncomplete(foods[j])].foodName,
                           ".">>)
    ELSE <<>>

\* processAndLogFoods(accessToken, nutritionData, fitbitUserId) up to the
\* first await of every food
processAndLogFoods(r, nutritionData, fitbitUserId) ==
  /\ Free(r)
  /\ IF FoodsMissingOrEmpty(nutritionData)
       THEN reqs' = [reqs EXCEPT ![r] =
              [pc |-> "done", op |-> "foods", nutritionData |-> nutritionData,
               fitbitUserId |-> fitbitUserId, promises |-> <<>>, sent |-> <<>>,
               result |-> [state |-> "rejected",
                           error |-> ValidationError(
                             <<"Invalid input: \"foods\" array is missing or empty.">>)]]]
       ELSE LET foods == nutritionData.foods.items
                promises == [i \in DOMAIN foods |->
                               IF FoodIncomplete(foods[i])
                                 THEN Promise("rejected", "", "validation")
                                 ELSE Promise("creating", "", "")]
            IN  reqs' = [reqs EXCEPT ![r] =
                  [pc |-> CallPc(promises), op |-> "foods", nutritionData |-> nutritionData,
                   fitbitUserId |-> fitbitUserId, promises |-> promises,
                   sent |-> CreateRequests(foods, fitbitUserId, 1),
                   result |-> PromiseAll(Pending, promises, FirstIncomplete(foods))]]
  /\ UNCHANGED <<store, now, gen, migVars>>

\* tasks that stop once the call has been rejected: the answer to a create
\* request is then not followed up
CreateFoodResponseUnlessRejected(r, i, ok, foodId) ==
  /\ reqs[r].pc = "foods"
  /\ reqs[r].result.state # "rejected"
  /\ i \in DOMAIN reqs[r].promises
  /\ reqs[r].promises[i].pc = "creating"
  /\ LET q == reqs[r]
         createFoodResult == [food |-> [foodId |-> foodId]]
         promises == [q.promises EXCEPT ![i] =
                        IF ok THEN Promise("logging", foodId, "")
                        ELSE Promise("rejected", "", "create")]
         rejection == IF ok THEN <<>>
                      ELSE FitbitApiError(<<"Failed to create food ",
                                            q.nutritionData.foods.items[i].foodName>>)
     IN  reqs' = [reqs EXCEPT ![r] =
           [q EXCEPT !.pc = CallPc(promises),
                     !.promises = promises,
                     !.sent = IF ok THEN Append(q.sent, LogRequest(q.fitbitUserId, i,
                                                                   createFoodResult))
                              ELSE q.sent,
                     !.result = PromiseAll(q.result, promises, rejection)]]
  /\ UNCHANGED <<store, now, gen, migVars>>

\* the answer to the create request of food i: on 2xx the log request is sent
CreateFoodResponse(r, i, ok, foodId) ==
  /\ reqs[r].pc = "foods"
  /\ i \in DOMAIN reqs[r].promises
  /\ reqs[r].promises[i].pc = "creating"
  /\ LET q == reqs[r]
         createFoodResult == [food |-> [foodId |-> foodId]]
         promises == [q.promises EXCEPT ![i] =
                        IF ok THEN Promise("logging", foodId, "")
                        ELSE Promise("rejected", "", "create")]
         rejection == IF ok THEN <<>>
                      ELSE FitbitApiError(<<"Failed to create food ",
                                            q.nutritionData.foods.items[i].foodName>>)
     IN  reqs' = [reqs EXCEPT ![r] =
           [q EXCEPT !.pc = CallPc(promises),
                     !.promises = promises,
                     !.sent = IF ok THEN Append(q.sent, LogRequest(q.fitbitUserId, i,
                                                                   createFoodResult))
                              ELSE q.sent,
                     !.result = PromiseAll(q.result, promises, rejection)]]
  /\ UNCHANGED <<store, now, gen, migVars>>

\* the answer to the log request of food i
LogFoodResponse(r, i, ok) ==
  /\ reqs[r].pc = "foods"
  /\ i \in DOMAIN reqs[r].promises
  /\ reqs[r].promises[i].pc = "logging"
  /\ LET q == reqs[r]
         promises == [q.promises EXCEPT ![i] =
                        IF ok THEN Promise("fulfilled", q.promises[i].foodId, "")
                        ELSE Promise("rejected", q.promises[i].foodId, "log")]
         rejection == IF ok THEN <<>>
                      ELSE FitbitApiError(<<"Failed to log food ",
                                            q.nutritionData.foods.items[i].foodName>>)
     IN  reqs' = [reqs EXCEPT ![r] =
           [q EXCEPT !.pc = CallPc(promises),
                     !.promises = promises,
                     !.result = PromiseAll(q.result, promises, rejection)]]
  /\ UNCHANGED <<store, now, gen, migVars>>

\* the calls of processAndLogFoods made in the slots R
FoodsNext(R) ==
  \/ \E r \in R, d \in NutritionData, f \in Fids : processAndLogFoods(r, d, f)
  \/ \E r \in R, i \in 1..MaxFoods, ok \in BOOLEAN, id \in FoodIds :
       CreateFoodResponse(r, i, ok, id)
  \/ \E r \in R, i \in 1..MaxFoods, ok \in BOOLEAN : LogFoodResponse(r, i, ok)

InitFoods == Init /\ store = <<>>

\* processAndLogFoods alone, one call at a time
SpecFoods == InitFoods /\ [][FoodsNext({1})]_vars

(***************************************************************************)
(* Properties.                                                             *)
(***************************************************************************)

\* the step is the write of the legacy document snapshot[idx]
MigWriteStep == InLoop /\ ~DRY_RUN /\ migratedCount' = migratedCount + 1

\* the step is the successful save of the request in slot r
LiveSaveStep(r) ==
  /\ reqs[r].pc \in {"exchange_save", "refresh_save"}
  /\ reqs'[r].pc = "done"
  /\ reqs'[r].outcome = "ok"

StoredOwners(s, k) == IF k \in DOMAIN s THEN OwnersOf(s[k]) ELSE {}

\* C1: a merge write at a key that holds a record with owners S, carrying
\* owners T, leaves owners S \cup T there.  The migration write carries the
\* firebaseUid of its source; the save of the live path carries no owners.
C1_UnionNotOverwrite ==
  [][/\ MigWriteStep =>
          LET data == snapshot[idx].data
              k == NewDocId(snapshot[idx].id, data)
          IN  k \in DOMAIN store =>
                /\ k \in DOMAIN store'
                /\ OwnersOf(store'[k]) = OwnersOf(store[k]) \cup {data.firebaseUid}
     /\ \A r \in 1..MaxReq :
          LiveSaveStep(r) =>
            \A k \in DOMAIN store :
              k \in DOMAIN store' /\ OwnersOf(store'[k]) = OwnersOf(store[k])
    ]_vars

\* owners {u2} at f1, then the migration of u1's record into f1
C1_Witness ==
  /\ \E i \in 1..Len(log) : log[i].id = "u1" /\ log[i].outcome = "migrated"
  /\ \E j \in 1..Len(snapshot) :
       /\ snapshot[j].id = "f1"
       /\ OwnersOf(snapshot[j].data) = {"u2"}
  /\ "f1" \in DOMAIN store
  /\ OwnersOf(store["f1"]) = {"u1", "u2"}

\* C2: no step removes a record or an owner: the owners of every record
\* after a step include its owners before the step.
C2_OwnersOnlyAdded ==
  [][\A k \in DOMAIN store :
       k \in DOMAIN store' /\ OwnersOf(store[k]) \subseteq OwnersOf(store'[k])]_vars

\* a refresh has saved, a run has migrated two records into f1, f1 had an owner
C2_Witness ==
  /\ reqs[1].pc = "done" /\ reqs[1].op = "refresh" /\ reqs[1].outcome = "ok"
  /\ Len(hist) = 1
  /\ ~hist[1].dryRun
  /\ hist[1].migrated = 2
  /\ \E j \in 1..Len(snapshot) :
       snapshot[j].id = "f1" /\ OwnersOf(snapshot[j].data) = {"u2"}
  /\ StoredOwners(store, "f1") = {"u1", "u2"}

\* the store content a snapshot was read from
StoreOf(docs) == [k \in {docs[i].id : i \in 1..Len(docs)} |->
                    (CHOOSE d \in Range(docs) : d.id = k).data]

\* every document but the one at key k is after the step what it was before
OnlyWritten(k) ==
  /\ DOMAIN store' = DOMAIN store \cup {k}
  /\ \A j \in DOMAIN store \ {k} : store'[j] = store[j]

\* the step is the write of the migration for the legacy document
\* snapshot[idx], or the save of the request in slot r
WriteStep == MigWriteStep \/ \E r \in DOMAIN reqs : LiveSaveStep(r)

\* the positions of the current run's snapshot whose documents the run has
\* written into the key k
MigratedInto(k) ==
  {i \in 1..Len(log) :
     log[i].outcome = "migrated" /\ NewDocId(snapshot[i].id, snapshot[i].data) = k}

\* the greatest element of a set of numbers that is not empty
Greatest(S) == CHOOSE i \in S : \A j \in S : j <= i

\* C3: every write to the store is a merge at one key that leaves there the
\* owners stored before together with the owners the writer carries, and the
\* token fields of the writer; no other record changes.  So a key that
\* several writers have written (two saves of the live path, interleaved in
\* either order; the writes of a run for several sources) holds the owners
\* it had and the owners of every writer, and the token fields of the write
\* applied last.
C3_WritersCommute ==
  /\ [](migPc \in {"loop", "exit0"} /\ ~getError =>
          \A k \in Fids :
            LET W == MigratedInto(k)
                before == StoreOf(snapshot)
            IN  /\ StoredOwners(store, k)
                     = StoredOwners(before, k) \cup {snapshot[i].data.firebaseUid : i \in W}
                /\ W # {} =>
                     LET last == snapshot[Greatest(W)].data IN
                       /\ store[k].accessToken = last.accessToken
                       /\ store[k].refreshToken = last.refreshToken
                       /\ store[k].expiresAt = last.expiresAt)
  /\ [][/\ store' # store => WriteStep
        /\ MigWriteStep =>
             LET data == snapshot[idx].data
                 k == NewDocId(snapshot[idx].id, data)
             IN  /\ OnlyWritten(k)
                 /\ OwnersOf(store'[k]) = StoredOwners(store, k) \cup {data.firebaseUid}
                 /\ store'[k].accessToken = data.accessToken
                 /\ store'[k].refreshToken = data.refreshToken
                 /\ store'[k].expiresAt = data.expiresAt
        /\ \A r \in DOMAIN reqs :
             LiveSaveStep(r) =>
               LET k == reqs[r].firebaseUid IN
                 /\ OnlyWritten(k)
                 /\ OwnersOf(store'[k]) = StoredOwners(store, k)
                 /\ store'[k].accessToken = reqs[r].data.access_token
                 /\ store'[k].refreshToken = reqs[r].data.refresh_token
                 /\ store'[k].expiresAt
                      = reqs[r].calledAt + (reqs[r].data.expires_in * 1000)
       ]_vars

\* two requests of u1 were given the token responses 1 and 2 and saved them
\* in the other order: the record of u1 holds the tokens of response 1, saved
\* last; and a run has written the sources u1 and u2 into f1, which had the
\* owner u2: f1 holds the owners u2 and u1 and the tokens of the source u2
C3_Witness ==
  /\ reqs[1].pc = "done" /\ reqs[1].outcome = "ok" /\ reqs[1].firebaseUid = "u1"
  /\ reqs[2].pc = "done" /\ reqs[2].outcome = "ok" /\ reqs[2].firebaseUid = "u1"
  /\ reqs[1].writes = 1 /\ reqs[2].writes = 1
  /\ gen = 2
  /\ store["u1"].accessToken = TokenResponse(1, "").access_token
  /\ migPc = "exit0"
  /\ MigratedInto("f1") = {2, 3}
  /\ snapshot[1].id = "f1" /\ OwnersOf(snapshot[1].data) = {"u2"}
  /\ store["f1"].firebaseUids = <<"u2", "u1">>
  /\ store["f1"].accessToken = snapshot[3].data.accessToken

\* C4: an apply run that follows an apply run, neither with a failed write
\* and nothing written in between, ends with the store the first one left.
C4_MigrationIdempotent ==
  \A i \in 1..Len(hist), j \in 1..Len(hist) :
    (/\ j = i + 1
     /\ ~hist[i].dryRun /\ ~hist[j].dryRun
     /\ hist[i].errors = 0 /\ hist[j].errors = 0
     /\ StoreOf(hist[j].snapshot) = hist[i].after)
      => hist[j].after = hist[i].after

\* two apply runs, each of which wrote, the first of which changed the store
C4_Witness ==
  /\ Len(hist) = 2
  /\ ~hist[1].dryRun /\ ~hist[2].dryRun
  /\ hist[1].errors = 0 /\ hist[2].errors = 0
  /\ hist[1].migrated = 2 /\ hist[2].migrated = 2
  /\ hist[1].after # StoreOf(hist[1].snapshot)
  /\ StoreOf(hist[2].snapshot) = hist[1].after

\* C5: during and after a run, whatever its mode and its failures, every
\* legacy document of the snapshot is still stored under its id, unchanged.
C5_SourcesUntouched ==
  /\ \A i \in 1..Len(snapshot) :
       IsLegacy(snapshot[i].data) =>
         /\ snapshot[i].id \in DOMAIN store
         /\ store[snapshot[i].id] = snapshot[i].data
  /\ \A h \in Range(hist) :
       \A i \in 1..Len(h.snapshot) :
         IsLegacy(h.snapshot[i].data) =>
           /\ h.snapshot[i].id \in DOMAIN h.after
           /\ h.after[h.snapshot[i].id] = h.snapshot[i].data

\* an apply run has ended that wrote for one legacy document and failed for another
C5_Witness ==
  /\ migPc = "exit0"
  /\ Len(hist) = 1
  /\ ~hist[1].dryRun
  /\ hist[1].migrated = 1
  /\ hist[1].errors = 1
  /\ hist[1].after # StoreOf(hist[1].snapshot)

\* the log entries of h that are writes into the document f
WritesInto(h, f) ==
  {i \in 1..Len(h.log) :
     h.log[i].outcome = "migrated" /\ h.snapshot[i].data.fitbitUserId = f}

\* C6: after an apply run in which the write for a legacy document succeeded
\* and no other write went to the same key, the document at key fitbitUserId
\* has that fitbitUserId, has the source's firebaseUid among its owners and
\* has the three token fields of the source.
C6_MigrationPostcondition ==
  \A h \in Range(hist) :
    \A i \in 1..Len(h.log) :
      LET src == h.snapshot[i].data IN
        (~h.dryRun /\ h.log[i].outcome = "migrated"
           /\ WritesInto(h, src.fitbitUserId) = {i})
          => /\ src.fitbitUserId \in DOMAIN h.after
             /\ LET new == h.after[src.fitbitUserId] IN
                  /\ new.fitbitUserId = src.fitbitUserId
                  /\ src.firebaseUid \in OwnersOf(new)
                  /\ new.accessToken = src.accessToken
                  /\ new.refreshToken = src.refreshToken
                  /\ new.expiresAt = src.expiresAt

\* u1's record was migrated into f1, which the run created
C6_Witness ==
  \E h \in Range(hist) :
    \E i \in 1..Len(h.log) :
      /\ ~h.dryRun
      /\ h.log[i].id = "u1" /\ h.log[i].outcome = "migrated"
      /\ WritesInto(h, "f1") = {i}
      /\ "f1" \notin DOMAIN StoreOf(h.snapshot)
      /\ "f1" \in DOMAIN h.after
      /\ h.after["f1"].firebaseUids = <<"u1">>

NumberOf(l, outcomes) == Cardinality({i \in 1..Len(l) : l[i].outcome \in outcomes})

\* the class the three tests of the loop give a document
ClassOf(data) ==
  IF IsNewFormat(data) THEN "skip_new_format"
  ELSE IF IsIncomplete(data) THEN "skip_incomplete"
  ELSE "migrate"

\* C7: every document processed has one trace entry with one class, which is
\* the class of its content, and has raised one counter by one: the three
\* counters add up to the documents processed and, in the summary, to the
\* size of the snapshot.
C7_ClassificationComplete ==
  /\ migPc = "loop" =>
       /\ Len(log) = idx - 1
       /\ migratedCount + skippedCount + errorCount = Len(log)
       /\ skippedCount = NumberOf(log, {"skipped"})
       /\ migratedCount = NumberOf(log, {"migrated", "planned"})
       /\ errorCount = NumberOf(log, {"error"})
       /\ \A i \in 1..Len(log) :
            /\ log[i].id = snapshot[i].id
            /\ log[i].class = ClassOf(snapshot[i].data)
            /\ log[i].outcome = "skipped" <=> log[i].class # "migrate"
  /\ \A h \in Range(hist) :
       /\ h.total = Len(h.snapshot)
       /\ Len(h.log) = h.total
       /\ h.migrated + h.skipped + h.errors = h.total
       /\ h.skipped = NumberOf(h.log, {"skipped"})
       /\ h.migrated = NumberOf(h.log, {"migrated", "planned"})
       /\ h.errors = NumberOf(h.log, {"error"})

\* a summary with every class and every counter above zero
C7_Witness ==
  \E h \in Range(hist) :
    /\ h.migrated > 0 /\ h.skipped > 1 /\ h.errors > 0
    /\ \E i \in 1..Len(h.log) : h.log[i].class = "skip_new_format"
    /\ \E i \in 1..Len(h.log) : h.log[i].class = "skip_incomplete"

Classes(l) == [i \in 1..Len(l) |-> l[i].class]

\* C8 as stated: a dry run and an apply run on the same input report the
\* same three counters and the same classes.
C8_DryRunSameCounters ==
  \A d \in Range(hist), a \in Range(hist) :
    (d.dryRun /\ ~a.dryRun /\ d.snapshot = a.snapshot)
      => /\ d.migrated = a.migrated
         /\ d.skipped = a.skipped
         /\ d.errors = a.errors
         /\ Classes(d.log) = Classes(a.log)

\* C8 amended: a dry run and an apply run on the same input give every
\* document the same class and report the same skipped count; the dry run
\* reports no error and counts as migrated every document the apply run
\* counts as migrated or as errored.
C8_DryRunFidelity ==
  \A d \in Range(hist), a \in Range(hist) :
    (d.dryRun /\ ~a.dryRun /\ d.snapshot = a.snapshot)
      => /\ Classes(d.log) = Classes(a.log)
         /\ d.skipped = a.skipped
         /\ d.errors = 0
         /\ d.migrated = a.migrated + a.errors

\* a dry run, then an apply run on the same input with a write and a failure
C8_Witness ==
  /\ Len(hist) = 2
  /\ hist[1].dryRun /\ ~hist[2].dryRun
  /\ hist[1].snapshot = hist[2].snapshot
  /\ hist[2].migrated = 1 /\ hist[2].errors = 1
  /\ hist[1].migrated = 2

\* C9: in a run started with DRY_RUN = "true" the store is, at every point
\* and in the end, what the run read at its start.
C9_DryRunWritesNothing ==
  /\ (DRY_RUN_ENV = "true" /\ migPc \in {"loop", "exit0"}) => store = StoreOf(snapshot)
  /\ \A h \in Range(hist) : h.env = "true" => h.after = StoreOf(h.snapshot)

\* a dry run has ended that counted two legacy documents as migrated
C9_Witness ==
  /\ DRY_RUN_ENV = "true"
  /\ migPc = "exit0"
  /\ migratedCount = 2
  /\ store = StoreOf(snapshot)

\* C10: a failed write is counted as an error and as nothing else, the script
\* leaves the loop only past the last document, and every legacy document is
\* attempted whatever failed before it; the script exits in failure only when
\* the collection could not be read.
C10_FailureIsolated ==
  /\ errorCount = NumberOf(log, {"error"})
  /\ migratedCount = NumberOf(log, {"migrated", "planned"})
  /\ migPc = "exit1" => snapshot = <<>> /\ log = <<>>
  /\ (migPc = "exit0" /\ snapshot # <<>>) => Len(log) = Len(snapshot)
  /\ \A i \in 1..Len(log) :
       IsLegacy(snapshot[i].data) <=> log[i].outcome \in {"migrated", "planned", "error"}
  /\ \A h \in Range(hist) :
       /\ Len(h.log) = Len(h.snapshot)
       /\ h.errors = NumberOf(h.log, {"error"})
       /\ \A i \in 1..Len(h.log) :
            IsLegacy(h.snapshot[i].data)
              <=> h.log[i].outcome \in {"migrated", "planned", "error"}

\* the write for u1's record failed, the write for u2's record followed
C10_Witness ==
  /\ migPc = "exit0"
  /\ Len(log) = Len(snapshot)
  /\ \E i \in 1..Len(log), j \in 1..Len(log) :
       /\ i < j
       /\ log[i].outcome = "error"
       /\ log[j].outcome = "migrated"
  /\ errorCount = 1 /\ migratedCount = 1

\* the step starts a run whose read of the collection rejects
FailedReadStep == runs' = runs + 1 /\ getError'

\* C11 amended: a run whose read of the collection fails classifies nothing,
\* writes nothing, prints no summary and ends with exit status 1, which the
\* catch of migrateTokens itself sets; nothing of the run follows.
C11_EnumerationFailureFatal ==
  [][/\ FailedReadStep =>
          /\ store' = store
          /\ hist' = hist
          /\ log' = <<>> /\ snapshot' = <<>>
          /\ migratedCount' = 0 /\ skippedCount' = 0 /\ errorCount' = 0
          /\ migPc' = "exit1"
          /\ exitSite' = "migrateTokens_catch"
     /\ (getError /\ migPc = "exit1") => runs' = runs + 1
    ]_vars

\* C11 as stated: the failed read leaves migrateTokens uncaught and ends the
\* script in the catch of the script entry.
C11_FailurePropagatesUncaught ==
  [][FailedReadStep =>
       /\ store' = store
       /\ hist' = hist
       /\ log' = <<>>
       /\ migPc' = "exit1"
       /\ exitSite' = "entry_catch"
    ]_vars

\* the second run fails to read a collection that holds a legacy document,
\* after a first run that printed its summary
C11_Witness ==
  /\ getError
  /\ migPc = "exit1"
  /\ runs = 2
  /\ Len(hist) = 1
  /\ \E k \in DOMAIN store : IsLegacy(store[k])

\* the issue number of a token: a token with a smaller number is older
TokenAge(token) == token[2]

\* the request in slot r is a refresh that has stored its tokens for a record
\* whose fitbitUserId is f
RefreshStoredFor(r, f) ==
  /\ reqs[r].pc = "done"
  /\ reqs[r].op = "refresh"
  /\ reqs[r].outcome = "ok"
  /\ reqs[r].firebaseUid \in DOMAIN store
  /\ Has(store[reqs[r].firebaseUid], "fitbitUserId")
  /\ store[reqs[r].firebaseUid].fitbitUserId = f

\* C12: a write of the migration never leaves at key fitbitUserId an
\* accessToken or refreshToken older than the one a successful refresh for
\* that Fitbit user has already stored.
C12_MigrationNeverStale ==
  [][MigWriteStep =>
       LET k == NewDocId(snapshot[idx].id, snapshot[idx].data) IN
         \A r \in 1..MaxReq :
           RefreshStoredFor(r, k) =>
             /\ TokenAge(store'[k].accessToken) >= TokenAge(reqs[r].data)
             /\ TokenAge(store'[k].refreshToken)
                  >= TokenAge(store[reqs[r].firebaseUid].refreshToken)
    ]_vars

\* C13: an apply run completed without a failed write on the store that a
\* killed apply run left ends with the store that one undisturbed run on the
\* input of the killed run leaves.
C13_KillAndRerun ==
  \A k \in Range(killed), h \in Range(hist) :
    (/\ ~k.dryRun /\ ~h.dryRun
     /\ NumberOf(k.log, {"error"}) = 0
     /\ h.errors = 0
     /\ StoreOf(h.snapshot) = k.after)
      => h.after = UninterruptedRun(StoreOf(k.snapshot))

\* a run killed after the first of two writes, then a run that completed
C13_Witness ==
  /\ Len(killed) = 1 /\ Len(hist) = 1
  /\ ~killed[1].dryRun /\ ~hist[1].dryRun
  /\ NumberOf(killed[1].log, {"migrated"}) = 1
  /\ NumberOf(killed[1].log, {"error"}) = 0
  /\ hist[1].migrated = 2 /\ hist[1].errors = 0
  /\ StoreOf(hist[1].snapshot) = killed[1].after
  /\ killed[1].after # StoreOf(killed[1].snapshot)
  /\ hist[1].after # killed[1].after

\* an apply run on the store that the apply run before it left
SecondRun(i, j) ==
  /\ j = i + 1
  /\ ~hist[i].dryRun /\ ~hist[j].dryRun
  /\ StoreOf(hist[j].snapshot) = hist[i].after

\* C14 as stated: the second run reports 0 migrated and N skipped.
C14_SecondRunAllSkipped ==
  \A i \in 1..Len(hist), j \in 1..Len(hist) :
    (SecondRun(i, j) /\ hist[i].errors = 0 /\ hist[j].errors = 0)
      => /\ hist[j].total = Cardinality(DOMAIN hist[i].after)
         /\ hist[j].migrated = 0
         /\ hist[j].skipped = hist[j].total

\* C14 amended: the second run attempts again every legacy record the
\* first run attempted, and skips the other records of the collection.
C14_SecondRunCounters ==
  \A i \in 1..Len(hist), j \in 1..Len(hist) :
    SecondRun(i, j)
      => /\ hist[j].total = Cardinality(DOMAIN hist[i].after)
         /\ hist[j].migrated + hist[j].errors = hist[i].migrated + hist[i].errors
         /\ hist[j].skipped = hist[j].total - (hist[i].migrated + hist[i].errors)

\* the first run created f1 from two legacy records, the second run migrated
\* both again and skipped f1
C14_Witness ==
  /\ Len(hist) = 2
  /\ SecondRun(1, 2)
  /\ hist[1].errors = 0 /\ hist[2].errors = 0
  /\ hist[1].migrated = 2 /\ hist[2].migrated = 2
  /\ hist[2].total = hist[1].total + 1
  /\ hist[2].skipped >= 1

\* the step changes the request in slot r: its fields, or the value of one;
\* data is looked at last, a token, a record or nothing according to the
\* kind and outcome of the request
Moves(r) ==
  \/ DOMAIN reqs'[r] # DOMAIN reqs[r]
  \/ \E f \in DOMAIN reqs[r] \ {"data"} : reqs'[r][f] # reqs[r][f]
  \/ "data" \in DOMAIN reqs[r] /\ reqs'[r].data # reqs[r].data

\* the request in slot r has ended on a call of the store that rejected
StoreFailed(q) == q.pc = "done" /\ q.outcome = "StoreError"

\* slot r, free before the step, holds a request of kind op after it
Starts(r, op) ==
  /\ reqs[r].pc \in {"idle", "done"}
  /\ Moves(r)
  /\ reqs'[r].op = op

\* C15: an exchange whose endpoint call answered 2xx has called the endpoint
\* once and writes once, at the key user_id of the answer, a record whose
\* fitbitUserId is that user_id and whose owners include the owner id.
C15_ExchangeKeyedByUserId ==
  [][\A r \in 1..MaxReq :
       (reqs[r].pc = "exchange_save" /\ reqs'[r].pc = "done" /\ reqs'[r].outcome = "ok")
         => /\ reqs'[r].calls = 1
            /\ reqs'[r].writes = 1
            /\ OnlyWritten(reqs[r].data.user_id)
            /\ store'[reqs[r].data.user_id].fitbitUserId = reqs[r].data.user_id
            /\ reqs[r].firebaseUid \in OwnersOf(store'[reqs[r].data.user_id])
    ]_vars

\* C16: an exchange whose endpoint call answers non-2xx ends at once with
\* FitbitApiError, after one call and no write: the store is unchanged.
C16_ExchangeFailureWritesNothing ==
  [][\A r \in 1..MaxReq :
       (Starts(r, "exchange") /\ reqs'[r].pc = "done")
         => /\ reqs'[r].outcome = "FitbitApiError"
            /\ reqs'[r].calls = 1
            /\ reqs'[r].writes = 0
            /\ store' = store
            /\ gen' = gen
    ]_vars

\* an exchange for u1 has failed while u1 has a record
C16_Witness ==
  /\ reqs[1].pc = "done"
  /\ reqs[1].op = "exchange"
  /\ reqs[1].outcome = "FitbitApiError"
  /\ reqs[1].firebaseUid = "u1"
  /\ "u1" \in DOMAIN store
  /\ store["u1"].accessToken = <<"access", Pos("u1")>>

\* the step is the read of the stored tokens by a refresh in slot r
RefreshReads(r) ==
  \/ Starts(r, "refresh")
  \/ reqs[r].pc = "refresh_read" /\ Moves(r)

\* C17: a refresh whose read of the store returns no record for the owner,
\* or a record without refreshToken, ends at once with AuthenticationError:
\* no call of the token endpoint, no write.  (A read that the store rejects
\* returns nothing: the refresh ends with the error of the store.)
C17_RefreshWithoutCredentials ==
  [][\A r \in 1..MaxReq :
       (RefreshReads(r) /\ ~StoreFailed(reqs'[r])) =>
         LET currentTokens == getTokensFromFirestore(store, reqs'[r].firebaseUid) IN
           (currentTokens = <<>> \/ ~Has(currentTokens, "refreshToken"))
             <=> /\ reqs'[r].pc = "done"
                 /\ reqs'[r].outcome = "AuthenticationError"
                 /\ reqs'[r].calls = 0
                 /\ reqs'[r].writes = 0
                 /\ store' = store
                 /\ gen' = gen
    ]_vars

\* a refresh for u1, whose record holds an access token and no
\* refreshToken, has failed with AuthenticationError; no token response was
\* issued and the record is as it was
C17_Witness ==
  /\ reqs[1].pc = "done"
  /\ reqs[1].op = "refresh"
  /\ reqs[1].outcome = "AuthenticationError"
  /\ reqs[1].firebaseUid = "u1"
  /\ reqs[1].calls = 0 /\ reqs[1].writes = 0
  /\ "u1" \in DOMAIN store
  /\ store["u1"] = WithoutRefreshToken("u1")
  /\ gen = 0

\* C18: a refresh whose endpoint call answers non-2xx (the provider issues
\* no token response) ends with FitbitApiError and the step writes nothing;
\* the refresh has then made one call and no write.  A refresh that leaves
\* the endpoint call otherwise was answered 2xx and has called the store.
C18_RefreshFailureWritesNothing ==
  [][\A r \in 1..MaxReq :
       (reqs[r].pc = "refresh_fetch" /\ Moves(r)) =>
         /\ store' = store
         /\ IF gen' = gen
              THEN /\ reqs'[r].pc = "done"
                   /\ reqs'[r].outcome = "FitbitApiError"
                   /\ reqs'[r].calls = 1
                   /\ reqs'[r].writes = 0
              ELSE /\ gen' = gen + 1
                   /\ reqs'[r].pc = "refresh_save" \/ StoreFailed(reqs'[r])
    ]_vars

\* a refresh for u1 has failed at the endpoint; u1's record holds the tokens
\* and the fitbitUserId it held at the start
C18_Witness ==
  /\ reqs[1].pc = "done"
  /\ reqs[1].op = "refresh"
  /\ reqs[1].outcome = "FitbitApiError"
  /\ reqs[1].firebaseUid = "u1"
  /\ store["u1"] \in InitDocs("u1")
  /\ gen = 0

\* C19: a refresh sends the refreshToken it read for the owner in its one
\* call of the endpoint; on a 2xx answer it writes once, to the record it
\* read, the tokens of the answer and the fitbitUserId that was on the
\* record, and returns the access token of the answer.  A refresh never
\* calls the endpoint a second time.
C19_RefreshSuccess ==
  [][\A r \in 1..MaxReq :
       /\ (RefreshReads(r) /\ reqs'[r].pc = "refresh_fetch")
            => /\ reqs'[r].currentTokens = store[reqs'[r].firebaseUid]
               /\ reqs'[r].calls = 0
               /\ store' = store
       /\ (reqs[r].pc = "refresh_fetch" /\ reqs'[r].pc = "refresh_save")
            => /\ reqs'[r].sent = reqs[r].currentTokens.refreshToken
               /\ reqs'[r].calledAt = now
               /\ reqs'[r].calls = 1
               /\ gen' = gen + 1
               /\ store' = store
       /\ (reqs[r].pc = "refresh_save" /\ reqs'[r].pc # "refresh_save"
              /\ ~(reqs'[r].pc = "done" /\ reqs'[r].outcome = "StoreError"))
            => LET u == reqs[r].firebaseUid IN
                 /\ OnlyWritten(u)
                 /\ store'[u].fitbitUserId = reqs[r].currentTokens.fitbitUserId
                 /\ store'[u].accessToken = reqs[r].data.access_token
                 /\ store'[u].refreshToken = reqs[r].data.refresh_token
                 /\ store'[u].expiresAt = reqs[r].calledAt + (reqs[r].data.expires_in * 1000)
                 /\ reqs'[r].calls = 1
                 /\ reqs'[r].writes = 1
                 /\ gen' = gen
                 /\ IF reqs[r].op = "log"
                      THEN reqs'[r].pc = "done" \/ reqs'[r].accessToken = reqs[r].data.access_token
                      ELSE /\ reqs'[r].pc = "done"
                           /\ reqs'[r].outcome = "ok"
                           /\ reqs'[r].data = reqs[r].data.access_token
       /\ reqs[r].pc \in {"refresh_fetch", "refresh_save"}
            => reqs'[r].pc \in {reqs[r].pc, "refresh_save", "log_foods", "done"}
                 /\ (reqs[r].pc = "refresh_save" => reqs'[r].pc # "refresh_fetch")
    ]_vars

\* a refresh for u1 has returned the first access token the provider issued,
\* which u1's record holds beside the fitbitUserId f1
C19_Witness ==
  /\ reqs[1].pc = "done"
  /\ reqs[1].op = "refresh"
  /\ reqs[1].outcome = "ok"
  /\ reqs[1].firebaseUid = "u1"
  /\ reqs[1].data = <<"access", 11>>
  /\ reqs[1].calls = 1 /\ reqs[1].writes = 1
  /\ store["u1"].accessToken = <<"access", 11>>
  /\ store["u1"].refreshToken = <<"refresh", 11>>
  /\ store["u1"].fitbitUserId = "f1"

\* C20: a food-logging request whose read of the store finds a record goes into refresh iff
\* now >= expiresAt of that record, and does so once.  The access token
\* passed to processAndLogFoods, which is called once, is the stored one
\* when there was no refresh and the one the refresh returned otherwise,
\* also when the call sends a create request and then throws ValidationError.
C20_ExpiryDecision ==
  [][\A r \in 1..MaxReq :
       /\ (Starts(r, "log") /\ ~StoreFailed(reqs'[r])) =>
            LET tokens == getTokensFromFirestore(store, reqs'[r].firebaseUid) IN
              tokens # <<>> =>
                IF now < tokens.expiresAt
                  THEN /\ reqs'[r].pc \in {"log_foods", "done"}
                       /\ reqs'[r].pc = "log_foods" =>
                            /\ reqs'[r].refreshes = 0
                            /\ reqs'[r].accessToken = tokens.accessToken
                  ELSE /\ reqs'[r].pc = "refresh_read"
                       /\ reqs'[r].refreshes = 1
       /\ (Starts(r, "log") /\ reqs'[r].pc = "done" /\ reqs'[r].outcome = "ValidationError"
              /\ reqs'[r].data # <<>>)
            => /\ reqs'[r].data.foodCalls = 1
               /\ reqs'[r].data.refreshes = 0
               /\ now < store[reqs'[r].firebaseUid].expiresAt
               /\ reqs'[r].data.accessToken = store[reqs'[r].firebaseUid].accessToken
       /\ (reqs[r].pc = "refresh_save" /\ reqs'[r].pc = "done"
              /\ reqs'[r].outcome = "ValidationError" /\ reqs'[r].data # <<>>)
            => /\ reqs'[r].data.foodCalls = 1
               /\ reqs'[r].data.refreshes = 1
               /\ reqs'[r].data.accessToken = reqs[r].data.access_token
               /\ reqs'[r].data.accessToken # reqs[r].tokens.accessToken
       /\ reqs'[r].pc = "refresh_read" => reqs[r].pc \in {"idle", "done", "refresh_read"}
       /\ (reqs[r].pc = "refresh_save" /\ reqs'[r].pc = "log_foods")
            => /\ reqs'[r].refreshes = 1
               /\ reqs'[r].accessToken = reqs[r].data.access_token
               /\ reqs'[r].accessToken # reqs[r].tokens.accessToken
       /\ reqs[r].pc = "log_foods"
            => \/ reqs'[r] = reqs[r]
               \/ /\ reqs'[r].pc = "done"
                  /\ reqs'[r].data.foodCalls = 1
                  /\ reqs'[r].data.accessToken = reqs[r].accessToken
                  /\ reqs'[r].data.refreshes = reqs[r].refreshes
    ]_vars

\* a request made at the instant the stored token expires has logged foods
\* with the token its one refresh returned
C20_Witness ==
  /\ reqs[1].pc = "done"
  /\ reqs[1].op = "log"
  /\ reqs[1].outcome = "ok"
  /\ reqs[1].data.refreshes = 1
  /\ reqs[1].data.accessToken = <<"access", 11>>
  /\ reqs[1].calls = 1 /\ reqs[1].writes = 1
  /\ now = ExpiresIn * 1000

\* C21: every record that has an owners array (firebaseUids) is stored at the
\* key that its own fitbitUserId field names, whatever exchanges, refreshes
\* and migration steps have run.
C21_KeyEqualsExternalId ==
  \A k \in DOMAIN store :
    IsNewFormat(store[k]) => Has(store[k], "fitbitUserId") /\ store[k].fitbitUserId = k

\* an exchange has saved u1's tokens for f2, and the run that read them has
\* created the record f2 beside the record f1
C21_Witness ==
  /\ reqs[1].pc = "done" /\ reqs[1].op = "exchange" /\ reqs[1].outcome = "ok"
  /\ migPc = "exit0"
  /\ "f2" \notin DOMAIN StoreOf(snapshot)
  /\ "f2" \in DOMAIN store
  /\ IsNewFormat(store["f2"])
  /\ OwnersOf(store["f2"]) = {"u1"}
  /\ "f1" \in DOMAIN store /\ IsNewFormat(store["f1"])

\* the fitbitUserId values that the legacy and the new-format records of s carry
ExternalIds(s) ==
  {s[k].fitbitUserId : k \in {j \in DOMAIN s : IsLegacy(s[j]) \/ IsNewFormat(s[j])}}

\* the keys of the records of s that carry the fitbitUserId f
RecordsFor(s, f) == {k \in DOMAIN s : Has(s[k], "fitbitUserId") /\ s[k].fitbitUserId = f}

\* C22 as stated: after an apply run that completed without errors, one
\* record exists for every fitbitUserId present in the store.
C22_OneRecordPerExternalId ==
  \A h \in Range(hist) :
    (~h.dryRun /\ h.errors = 0)
      => \A f \in ExternalIds(h.after) : Cardinality(RecordsFor(h.after, f)) = 1

\* C22 amended: after an apply run that completed without errors, every
\* fitbitUserId carried by a legacy or new-format record that the run read
\* has one new-format record, stored at the key fitbitUserId; the legacy
\* records the run read are still there, as legacy records.  What the live
\* path writes after the run has read the collection is not covered.
C22_OneCurrentRecordPerExternalId ==
  \A h \in Range(hist) :
    (~h.dryRun /\ h.errors = 0)
      => /\ \A f \in ExternalIds(StoreOf(h.snapshot)) :
              {k \in RecordsFor(h.after, f) : IsNewFormat(h.after[k])} = {f}
         /\ \A i \in 1..Len(h.snapshot) :
              IsLegacy(h.snapshot[i].data)
                => /\ h.snapshot[i].id \in DOMAIN h.after
                   /\ IsLegacy(h.after[h.snapshot[i].id])

\* an apply run without errors has migrated u1 into f1, which it created;
\* two records carry f1, one of them new-format.  An exchange has saved the
\* record of u2 for f2 after the run had read the collection: f2 has no
\* new-format record.
C22_Witness ==
  \E h \in Range(hist) :
    /\ ~h.dryRun /\ h.errors = 0 /\ h.migrated = 1
    /\ DOMAIN StoreOf(h.snapshot) = {"u1"}
    /\ RecordsFor(h.after, "f1") = {"f1", "u1"}
    /\ {k \in RecordsFor(h.after, "f1") : IsNewFormat(h.after[k])} = {"f1"}
    /\ RecordsFor(h.after, "f2") = {"u2"}
    /\ IsLegacy(h.after["u2"])

\* C23: on the store an error-free apply run leaves, getTokensFromFirestore
\* returns null for an owner that no record's owners array contains, and
\* otherwise a record whose owners array contains the owner: for an owner
\* whose legacy record was migrated, the record at key fitbitUserId.
C23_GetByOwner ==
  \A h \in Range(hist) :
    (~h.dryRun /\ h.errors = 0) =>
      \A u \in Uids :
        LET found == getTokensFromFirestore(h.after, u) IN
          IF \A k \in DOMAIN h.after : u \notin OwnersOf(h.after[k])
            THEN found = <<>>
            ELSE u \in OwnersOf(found)

\* the requests that the HTTP function has taken, in flight or answered
Taken == {reqs[r] : r \in {q \in DOMAIN reqs : reqs[q].pc # "idle" /\ reqs[q].op = "http"}}

\* the requests that the HTTP function has answered
Answered == {q \in Taken : q.pc = "done"}

\* the step is a step of the request in slot r: the handler takes it, or
\* goes on with it
HttpMoves(r) ==
  /\ reqs'[r].pc # "idle"
  /\ reqs[r].pc = "idle" \/ reqs'[r] # reqs[r]

\* the request q failed in the call named call, which threw a plain Error
FailedIn(q, call) ==
  /\ q.error # <<>>
  /\ ~Has(q.error, "statusCode")
  /\ q.trace[Len(q.trace)] = call

\* the calls of q other than the two reads of the secrets
CallsOf(q) == {q.trace[i] : i \in 1..Len(q.trace)} \ {"accessSecretVersion"}

\* C24: a failed request is answered with the status of its error kind: 401
\* for AuthenticationError and for a failed verification of the ID token,
\* 400 for ValidationError, 500 for FitbitApiError and for a failed access to
\* the store or to the secrets, 405 for an unsupported method; the body
\* carries the message of the error.
C24_StatusOfErrorKind ==
  \A q \in Answered :
    q.error # <<>> =>
      /\ q.body = [error |-> q.error.message]
      /\ q.error.name = "AuthenticationError" => q.status = 401
      /\ q.error.name = "ValidationError" => q.status = 400
      /\ q.error.name = "FitbitApiError" => q.status = 500
      /\ q.error.name = "MethodNotAllowedError" => q.status = 405
      /\ (FailedIn(q, "verifyFirebaseIdToken") \/ FailedIn(q, "verifyIdToken"))
           => q.status = 401
      /\ (\/ FailedIn(q, "accessSecretVersion")
          \/ FailedIn(q, "getTokensFromFirestore")
          \/ FailedIn(q, "saveTokensToFirestore"))
           => q.status = 500
      /\ q.status \in {400, 401, 405, 500}

\* a POST with a forged ID token has been answered 401 after the verifier
\* rejected it, and the POST that arrived after it has been answered 500
\* after the store rejected the write of its refresh
C24_Witness ==
  /\ reqs[1].pc = "done" /\ reqs[2].pc = "done"
  /\ reqs[1].req.method = "POST"
  /\ FailedIn(reqs[1], "verifyIdToken")
  /\ reqs[1].status = 401
  /\ reqs[1].body = [error |-> <<"Invalid ", "ID token", ".">>]
  /\ "refreshFitbitAccessToken" \in CallsOf(reqs[2])
  /\ FailedIn(reqs[2], "saveTokensToFirestore")
  /\ reqs[2].status = 500
  /\ reqs[2].body.error \in StoreMessages

\* C25: verifyFirebaseIdToken, called with the token of an answered POST,
\* throws AuthenticationError without calling the verifier when the token is
\* absent, throws AuthenticationError when the verifier rejects the token,
\* and returns the decoded token when the verifier accepts it.
C25_VerificationFailures ==
  \A q \in Answered :
    "verifyFirebaseIdToken" \in CallsOf(q) =>
      LET idToken == BearerToken(q.req.authorization)
          verified == verifyFirebaseIdToken(idToken)
      IN  IF Falsy(idToken)
            THEN /\ verified.thrown # <<>>
                 /\ verified.thrown.name = "AuthenticationError"
                 /\ verified.trace = <<>>
          ELSE IF idToken[1] \in DOMAIN DecodedTokens
            THEN /\ verified.thrown = <<>>
                 /\ verified.value = DecodedTokens[idToken[1]]
          ELSE /\ verified.thrown # <<>>
               /\ verified.thrown.name = "AuthenticationError"
               /\ verified.trace = <<"verifyIdToken">>

\* the answer to a request that failed to read the secrets
SecretsFailed(q) ==
  /\ FailedIn(q, "accessSecretVersion")
  /\ q.status = 500
  /\ q.body = [error |-> <<"Failed to access secret. Check IAM permissions.">>]

\* the answer to a request whose call of the store was rejected
StoreRejected(q, call) ==
  /\ FailedIn(q, call)
  /\ q.status = 500
  /\ q.body.error \in StoreMessages

\* q is a POST whose Authorization header is missing or does not start
\* with 'Bearer '
Unauthenticated(q) ==
  /\ q.req.method = "POST"
  /\ q.req.authorization = <<>> \/ q.req.authorization[1] # "Bearer "

\* C26 as stated: every such POST is answered 401, nothing having been
\* called for it.
C26_UnauthenticatedAnswered401 ==
  \A q \in Answered :
    Unauthenticated(q) => q.status = 401 /\ CallsOf(q) = {} /\ q.writes = 0

\* C26 amended: for a POST whose Authorization header is missing or does
\* not start with 'Bearer ' nothing is called but the two reads of the
\* secrets: no verification of an ID token, no read or write of the store,
\* no refresh, no food logging, and no step of it changes the store or the
\* provider.  It is answered 401 when the secrets were read, and 500 when
\* the read of the secrets failed.
C26_UnauthenticatedPost ==
  /\ [](\A q \in Taken :
          Unauthenticated(q) =>
            /\ CallsOf(q) = {}
            /\ q.issued = 0 /\ q.writes = 0
            /\ q.pc = "done" =>
                 \/ SecretsFailed(q)
                 \/ /\ q.status = 401
                    /\ q.error.name = "AuthenticationError"
                    /\ Len(q.trace) = 2)
  /\ [][\A r \in DOMAIN reqs :
          (HttpMoves(r) /\ Unauthenticated(reqs'[r])) => store' = store /\ gen' = gen
       ]_vars

\* a POST with a Basic header that carries u1's valid ID token and a valid
\* body has been answered 401 while u1 has a record, and the same POST,
\* arrived after it, has been answered 500 for the secrets
C26_Witness ==
  /\ reqs[1].pc = "done" /\ reqs[2].pc = "done"
  /\ reqs[1].req.method = "POST"
  /\ reqs[1].req.authorization = <<"Basic ", "idtoken-u1">>
  /\ ~FoodsMissing(reqs[1].req.body)
  /\ "u1" \in DOMAIN store
  /\ reqs[1].status = 401
  /\ CallsOf(reqs[1]) = {}
  /\ reqs[2].req = reqs[1].req
  /\ SecretsFailed(reqs[2])

\* the owner whose ID token the POST q carries
OwnerOf(q) == DecodedTokens[BearerToken(q.req.authorization)[1]].uid

\* the POST q carries an ID token that the verifier accepts and a body with
\* a foods array
Authenticated(q) ==
  /\ q.req.method = "POST"
  /\ ~(q.req.authorization = <<>> \/ q.req.authorization[1] # "Bearer ")
  /\ BearerToken(q.req.authorization)[1] \in DOMAIN DecodedTokens
  /\ ~FoodsMissing(q.req.body)

\* C27 as stated: an authenticated POST with a valid body for an owner who
\* has no record is answered 401, and neither a refresh nor the food logging
\* is called nor the store written.
C27_NoRecordAnswered401 ==
  \A q \in Answered :
    (Authenticated(q) /\ OwnerOf(q) \notin DOMAIN store)
      => /\ q.status = 401
         /\ CallsOf(q) \subseteq {"verifyFirebaseIdToken", "verifyIdToken",
                                  "getTokensFromFirestore"}
         /\ q.writes = 0

\* C27 amended: an authenticated POST with a valid body for an owner who has
\* no record calls the verifier and reads the store, and nothing else:
\* neither a refresh nor the food logging is called, and nothing is written.
\* The read that finds no record ends the request.  The request is answered
\* 401 when the secrets and the store were read, and 500 when the read of
\* the secrets failed or the store rejected the read.
C27_NoStoredCredentials ==
  /\ [](\A q \in Taken :
          (Authenticated(q) /\ OwnerOf(q) \notin DOMAIN store) =>
            /\ CallsOf(q) \subseteq {"verifyFirebaseIdToken", "verifyIdToken",
                                     "getTokensFromFirestore"}
            /\ q.issued = 0 /\ q.writes = 0
            /\ q.pc = "done" =>
                 \/ SecretsFailed(q)
                 \/ StoreRejected(q, "getTokensFromFirestore")
                 \/ /\ q.status = 401
                    /\ q.error = NoTokensFound(OwnerOf(q))
                    /\ q.body = [error |-> q.error.message]
                    /\ CallsOf(q) = {"verifyFirebaseIdToken", "verifyIdToken",
                                     "getTokensFromFirestore"})
  /\ [][\A r \in DOMAIN reqs :
          (/\ reqs[r].pc = "read"
           /\ HttpMoves(r)
           /\ reqs[r].firebaseUid \notin DOMAIN store)
            => /\ reqs'[r].pc = "done"
               /\ reqs'[r].status \in {401, 500}
               /\ store' = store
               /\ gen' = gen
       ]_vars

\* u2, who has no record while u1 has one, has sent an authenticated POST
\* with one food and has been answered 401 after the read of the store,
\* while a POST of u1 was waiting for the token endpoint
C27_Witness ==
  \E r \in DOMAIN reqs, p \in DOMAIN reqs :
    /\ reqs[r].pc = "done"
    /\ reqs[r].req.method = "POST"
    /\ reqs[r].req.authorization = <<"Bearer ", "idtoken-u2">>
    /\ Authenticated(reqs[r])
    /\ reqs[r].req.body.foods.items = <<Apple>>
    /\ DOMAIN store = {"u1"}
    /\ reqs[r].status = 401
    /\ reqs[r].trace[Len(reqs[r].trace)] = "getTokensFromFirestore"
    /\ reqs[p].pc = "refresh_fetch"
    /\ reqs[p].firebaseUid = "u1"

\* q is an OAuth callback: a GET with a code
Callback(q) == q.req.method = "GET" /\ Has(q.req.query, "code")

\* the state of a callback cannot be used: it is missing, is not the base64
\* of a JSON text, or decodes to an object without firebaseUid
StateUnusable(query) ==
  \/ ~Has(query, "state")
  \/ query.state = <<>>
  \/ ~Has(query.state, "json")
  \/ ~Has(query.state.json, "firebaseUid")

\* C28 as stated: a GET with a code whose state cannot be used is answered
\* 400, and the code is not exchanged.
C28_UnusableStateAnswered400 ==
  \A q \in Answered :
    (Callback(q) /\ StateUnusable(q.req.query))
      => q.status = 400 /\ CallsOf(q) = {} /\ q.writes = 0

\* C28 amended: for a GET with a code whose state is missing, cannot be
\* decoded or decodes to an object without firebaseUid the code is not
\* exchanged: nothing is called but the two reads of the secrets, no token
\* response is issued, the store is not written.  It is answered 400 when
\* the secrets were read, and 500 when the read of the secrets failed.
C28_CallbackStateValidation ==
  /\ [](\A q \in Taken :
          (Callback(q) /\ StateUnusable(q.req.query)) =>
            /\ CallsOf(q) = {}
            /\ q.issued = 0 /\ q.writes = 0
            /\ q.pc = "done" =>
                 \/ SecretsFailed(q)
                 \/ /\ q.status = 400
                    /\ q.error.name = "ValidationError"
                    /\ q.body = [error |-> q.error.message])
  /\ [][\A r \in DOMAIN reqs :
          (HttpMoves(r) /\ Callback(reqs'[r]) /\ StateUnusable(reqs'[r].req.query))
            => store' = store /\ gen' = gen
       ]_vars

\* a callback whose state is not base64 JSON has been answered 400, and the
\* same callback, arrived after it, has been answered 500 for the secrets
C28_Witness ==
  /\ reqs[1].pc = "done" /\ reqs[2].pc = "done"
  /\ Callback(reqs[1])
  /\ Has(reqs[1].req.query, "state")
  /\ reqs[1].req.query.state = [raw |-> "invalid-state"]
  /\ reqs[1].status = 400
  /\ CallsOf(reqs[1]) = {}
  /\ reqs[2].req = reqs[1].req
  /\ SecretsFailed(reqs[2])

\* the calls of processAndLogFoods, running or over
FoodCalls == {reqs[r] : r \in {q \in 1..MaxReq : reqs[q].pc # "idle" /\ reqs[q].op = "foods"}}

\* the positions in q.sent of the requests to url for the food at index i
SentFor(q, url, i) ==
  {k \in 1..Len(q.sent) : q.sent[k].url = url /\ q.sent[k].item = i}

\* the create request of the food at index i of q was answered 2xx
Created(q, i) ==
  \/ q.promises[i].pc \in {"logging", "fulfilled"}
  \/ q.promises[i].pc = "rejected" /\ q.promises[i].failed = "log"

\* C29: for every food the create request is issued first and once, and the
\* log request is issued once the create was answered 2xx, and only then,
\* with the foodId that answer returned; a food that was logged took two
\* requests; a failed create rejects the call and no log request is issued
\* for that food; a failed log rejects the call.
C29_CreateThenLog ==
  \A q \in FoodCalls :
    \A i \in DOMAIN q.promises :
      LET creates == SentFor(q, "foods.json", i)
          logs == SentFor(q, "foods/log.json", i)
      IN  /\ Cardinality(creates) <= 1 /\ Cardinality(logs) <= 1
          /\ ~FoodIncomplete(q.nutritionData.foods.items[i]) => creates # {}
          /\ Created(q, i) <=> logs # {}
          /\ \A k \in logs :
               /\ \E j \in creates : j < k
               /\ q.promises[i].foodId \in FoodIds
               /\ q.sent[k].foodId = q.promises[i].foodId
          /\ q.promises[i].pc = "fulfilled" => Cardinality(creates) + Cardinality(logs) = 2
          /\ (q.promises[i].pc = "rejected" /\ q.promises[i].failed = "create")
               => /\ logs = {}
                  /\ q.result.state = "rejected"
                  /\ q.result.error.name \in {"FitbitApiError", "ValidationError"}
          /\ (q.promises[i].pc = "rejected" /\ q.promises[i].failed = "log")
               => /\ q.result.state = "rejected"
                  /\ q.result.error.name \in {"FitbitApiError", "ValidationError"}

\* two foods were logged with the different foodIds their creates returned,
\* the second food answered first; four requests were sent
C29_Witness ==
  \E q \in FoodCalls :
    /\ q.pc = "done"
    /\ q.result.state = "fulfilled"
    /\ Len(q.sent) = 4
    /\ q.promises[1].foodId = "67890" /\ q.promises[2].foodId = "12345"
    /\ q.sent[3] = [url |-> "foods/log.json", user |-> q.fitbitUserId, item |-> 2,
                    foodId |-> "12345"]
    /\ q.sent[4] = [url |-> "foods/log.json", user |-> q.fitbitUserId, item |-> 1,
                    foodId |-> "67890"]

\* C30: processAndLogFoods called with foods missing, not an array or empty
\* is rejected with the ValidationError 'Invalid input: "foods" array is
\* missing or empty.' and sends no request to the food API.
C30_EmptyFoodList ==
  \A q \in FoodCalls :
    (\/ ~Has(q.nutritionData, "foods")
     \/ ~q.nutritionData.foods.array
     \/ q.nutritionData.foods.items = <<>>)
      => /\ q.pc = "done"
         /\ q.result.state = "rejected"
         /\ q.result.error =
              ValidationError(<<"Invalid input: \"foods\" array is missing or empty.">>)
         /\ q.result.error.statusCode = 400
         /\ q.sent = <<>>

\* the call with the empty array has been rejected
C30_Witness ==
  \E q \in FoodCalls :
    /\ Has(q.nutritionData, "foods")
    /\ q.nutritionData.foods.array
    /\ q.nutritionData.foods.items = <<>>
    /\ q.result.state = "rejected"
    /\ q.sent = <<>>

\* the message of the handler's test of tokens.fitbitUserId
NotFoundMessage == <<"Fitbit user ID not found in the database.">>

\* the handler of the POST q has read a record of its owner that has no
\* fitbitUserId
WithoutExternalId(q) == q.tokens # <<>> /\ ~Has(q.tokens, "fitbitUserId")

\* C31 as stated: an authenticated POST for which the handler read a record
\* without fitbitUserId is answered 500 with 'Fitbit user ID not found in
\* the database.' and no food-logging request is made.
C31_AnsweredNotFound ==
  \A q \in Answered :
    WithoutExternalId(q)
      => /\ q.status = 500
         /\ q.body = [error |-> NotFoundMessage]
         /\ "processAndLogFoods" \notin CallsOf(q)
         /\ "food_api" \notin CallsOf(q)

\* C31 amended: for an authenticated POST whose handler read a record
\* without fitbitUserId, processAndLogFoods is not called and no request is
\* sent to the food API.  When the record is in date the request is
\* answered 500 with 'Fitbit user ID not found in the database.' without a
\* refresh.  When the record is expired the refresh comes first: the request
\* is answered with the error the refresh throws (401 for
\* AuthenticationError, 500 otherwise), and with 500 'Fitbit user ID not
\* found in the database.' only when the refresh has written the record.
C31_RecordWithoutExternalId ==
  \A q \in Taken :
    WithoutExternalId(q) =>
      /\ "processAndLogFoods" \notin CallsOf(q)
      /\ "food_api" \notin CallsOf(q)
      /\ Authenticated(q)
      /\ q.at < q.tokens.expiresAt =>
           /\ "refreshFitbitAccessToken" \notin CallsOf(q)
           /\ q.pc = "done"
           /\ q.status = 500
           /\ q.error.name = "FitbitApiError"
           /\ q.body = [error |-> NotFoundMessage]
      /\ q.at >= q.tokens.expiresAt =>
           /\ "refreshFitbitAccessToken" \in CallsOf(q)
           /\ q.pc = "done" =>
                /\ q.body = [error |-> q.error.message]
                /\ IF q.writes = 1
                     THEN /\ q.status = 500
                          /\ q.error.name = "FitbitApiError"
                          /\ q.error.message = NotFoundMessage
                     ELSE /\ q.error.message # NotFoundMessage
                          /\ q.error.name \in {"AuthenticationError", "FitbitApiError", "Error"}
                          /\ q.status = IF q.error.name = "AuthenticationError"
                                          THEN 401 ELSE 500
                          /\ q.trace[Len(q.trace)] \in
                               {"getTokensFromFirestore", "token_endpoint",
                                "saveTokensToFirestore"}

\* u1, whose record has no fitbitUserId, has sent two authenticated POSTs
\* with one food: the first read the record in date and has been answered
\* 500 'Fitbit user ID not found in the database.'; the second read it
\* expired and has been answered 500 with the error of the write of its
\* refresh
C31_Witness ==
  /\ reqs[1].pc = "done" /\ reqs[2].pc = "done"
  /\ WithoutExternalId(reqs[1]) /\ WithoutExternalId(reqs[2])
  /\ OwnerOf(reqs[1]) = "u1" /\ OwnerOf(reqs[2]) = "u1"
  /\ reqs[1].req.body.foods.items = <<Apple>>
  /\ reqs[1].at < reqs[1].tokens.expiresAt
  /\ reqs[1].status = 500
  /\ reqs[1].body = [error |-> NotFoundMessage]
  /\ reqs[1].trace[Len(reqs[1].trace)] = "getTokensFromFirestore"
  /\ reqs[2].at >= reqs[2].tokens.expiresAt
  /\ reqs[2].status = 500
  /\ reqs[2].body = [error |-> <<"Cannot use \"undefined\" as a Firestore value.">>]
  /\ reqs[2].issued = 1 /\ reqs[2].writes = 0

\* the calls that read the record of an owner, refresh the tokens of an
\* owner or log foods for one
Gated ==
  {"getTokensFromFirestore", "refreshFitbitAccessToken", "processAndLogFoods", "food_api"}

\* the calls of the food logging
Logging == {"processAndLogFoods", "food_api"}

\* the verifier accepted the ID token of q before call number j of q
VerifiedBefore(q, j) == \E i \in 1..(j - 1) : q.trace[i] = "verifyIdToken"

\* C32: in every request, at every point of its execution, a read of the
\* store, a refresh or a food-logging call is made only after the verifier
\* accepted the bearer token of the request and the body was found to carry
\* a foods array; the owner the handler works for is the owner of that
\* token: the record it reads, the record its refresh reads and the record
\* its refresh writes are that owner's, and a POST changes no other record;
\* the food logging is called only after the handler has read a record.
C32_AuthenticationGates ==
  /\ [](\A q \in Taken :
          /\ \A j \in 1..Len(q.trace) :
               q.trace[j] \in Gated => Authenticated(q) /\ VerifiedBefore(q, j)
          /\ CallsOf(q) \cap Gated # {} => q.firebaseUid = OwnerOf(q)
          /\ CallsOf(q) \cap Logging # {} => q.tokens # <<>>
          /\ (q.req.method = "POST" /\ q.writes > 0) =>
               /\ Authenticated(q)
               /\ "refreshFitbitAccessToken" \in CallsOf(q))
  /\ [][\A r \in DOMAIN reqs :
          (HttpMoves(r) /\ reqs'[r].req.method = "POST") =>
            /\ store' # store =>
                 /\ Authenticated(reqs'[r])
                 /\ OnlyWritten(OwnerOf(reqs'[r]))
                 /\ store'[OwnerOf(reqs'[r])].firebaseUid = OwnerOf(reqs'[r])
            /\ (reqs[r].pc # "idle" /\ reqs'[r].tokens # reqs[r].tokens) =>
                 /\ Authenticated(reqs'[r])
                 /\ OwnerOf(reqs'[r]) \in DOMAIN store
                 /\ reqs'[r].tokens = store[OwnerOf(reqs'[r])]
            /\ (reqs[r].pc # "idle" /\ reqs'[r].currentTokens # reqs[r].currentTokens) =>
                 /\ Authenticated(reqs'[r])
                 /\ OwnerOf(reqs'[r]) \in DOMAIN store
                 /\ reqs'[r].currentTokens = store[OwnerOf(reqs'[r])]
       ]_vars

\* u2 has sent an authenticated POST with one food while a POST of u1 was
\* being served; the expired tokens of u2 were refreshed and the food was
\* logged, the record of u1 staying as it was
C32_Witness ==
  \E r \in DOMAIN reqs, p \in DOMAIN reqs :
    /\ reqs[r].pc = "done"
    /\ Authenticated(reqs[r])
    /\ OwnerOf(reqs[r]) = "u2"
    /\ {"refreshFitbitAccessToken", "food_api"} \subseteq CallsOf(reqs[r])
    /\ reqs[r].status = 200
    /\ reqs[r].writes = 1
    /\ store["u2"].accessToken = reqs[r].data.access_token
    /\ reqs[p].pc = "log_foods"
    /\ reqs[p].firebaseUid = "u1"
    /\ store["u1"].accessToken = <<"access", Pos("u1")>>

\* C33: every request the handler takes, whatever its method and whatever
\* the secrets, the verifier, the store, the token endpoint and the food
\* API answer, is answered by exactly one call of a sending method of res:
\* nothing is sent while the handler runs, the handler sends once when it
\* returns (send for OPTIONS and for the success page of the callback,
\* redirect for the callback with a redirectUri, json for the logged foods
\* and for every error), nothing changes for the request after that, and
\* the handler does return when every service answers the calls it awaits:
\* a request taken stays taken, and from some point on every request taken
\* has been answered.
C33_ExactlyOneResponse ==
  /\ [](\A q \in Taken :
          /\ q.pc # "done" => q.sent = <<>>
          /\ q.pc = "done" =>
               /\ Len(q.sent) = 1
               /\ q.sent[1] \in {"send", "json", "redirect"}
               /\ q.error # <<>> => q.sent = <<"json">>
               /\ q.sent = <<"redirect">> <=> q.status = 302
               /\ q.sent = <<"send">> <=>
                    \/ q.req.method = "OPTIONS"
                    \/ q.status = 200 /\ "exchangeCodeForTokens" \in CallsOf(q))
  /\ [][\A r \in DOMAIN reqs :
          /\ reqs[r].pc = "done" => reqs'[r] = reqs[r]
          /\ reqs[r].pc # "idle" => reqs'[r].pc # "idle"
       ]_vars
  /\ <>[](\A r \in DOMAIN reqs : reqs[r].pc \in {"idle", "done"})

\* a callback whose redirectUri is no URL has been answered once, with 500,
\* after the tokens were stored, while the request that arrived after it
\* is waiting for the store
C33_Witness ==
  /\ reqs[1].pc = "done"
  /\ reqs[1].req.method = "GET"
  /\ "saveTokensToFirestore" \in CallsOf(reqs[1])
  /\ reqs[1].error # <<>>
  /\ reqs[1].error.name = "TypeError"
  /\ reqs[1].status = 500
  /\ reqs[1].sent = <<"json">>
  /\ reqs[1].writes = 1
  /\ reqs[2].pc = "read"
  /\ reqs[2].sent = <<>>

\* request r has read for its refresh the record that request q has read
SameRead(r, q) ==
  /\ reqs[q].pc \in {"refresh_fetch", "refresh_save"}
  /\ reqs[q].firebaseUid = reqs[r].firebaseUid
  /\ reqs[q].currentTokens = reqs[r].currentTokens

\* C34: a request that is to refresh goes on at every step whatever the
\* other request does (no lock, transaction or version check holds it back):
\* when two requests have read the same record of one owner, each sends the
\* stored refreshToken to the token endpoint, which so receives it twice,
\* and each then writes its own answer to the record, which holds the tokens
\* of the request that wrote last.
C34_RefreshNotSerialized ==
  /\ [](\A r \in DOMAIN reqs :
          /\ reqs[r].pc = "refresh_read" => ENABLED RefreshRead(r, reqs[r].firebaseUid, TRUE)
          /\ reqs[r].pc = "refresh_fetch" => ENABLED RefreshFetch(r, TRUE)
          /\ reqs[r].pc = "refresh_save" => ENABLED RefreshSave(r, TRUE))
  /\ [][\A r \in DOMAIN reqs, q \in DOMAIN reqs :
          r # q =>
            /\ (/\ reqs[r].pc = "refresh_fetch"
                /\ reqs'[r].pc = "refresh_save"
                /\ SameRead(r, q))
                 => /\ reqs'[r].sent = store[reqs[r].firebaseUid].refreshToken
                    /\ reqs[q].pc = "refresh_save" =>
                         /\ reqs'[r].sent = reqs[q].sent
                         /\ reqs'[r].data # reqs[q].data
            /\ (/\ reqs[r].pc = "refresh_save"
                /\ reqs'[r].pc # "refresh_save"
                /\ ~(reqs'[r].pc = "done" /\ reqs'[r].outcome = "StoreError"))
                 => LET u == reqs[r].firebaseUid IN
                      /\ store'[u].accessToken = reqs[r].data.access_token
                      /\ store'[u].refreshToken = reqs[r].data.refresh_token
                      /\ reqs[q].pc = "done" /\ reqs[q].op = "log" /\ reqs[q].firebaseUid = u
                           /\ reqs[q].writes = 1 /\ reqs[r].sent # store[u].refreshToken
                           => store'[u].refreshToken # store[u].refreshToken
     ]_vars

\* two food-logging requests of u1, both started on the expired record, have
\* both sent the one stored refreshToken and hold different answers to save
C34_Witness ==
  /\ reqs[1].pc = "refresh_save" /\ reqs[2].pc = "refresh_save"
  /\ reqs[1].op = "log" /\ reqs[2].op = "log"
  /\ reqs[1].firebaseUid = "u1" /\ reqs[2].firebaseUid = "u1"
  /\ reqs[1].sent = reqs[2].sent
  /\ reqs[1].sent = store["u1"].refreshToken
  /\ reqs[1].data # reqs[2].data
  /\ reqs[1].tokens.expiresAt <= reqs[1].decidedAt
  /\ reqs[2].tokens.expiresAt <= reqs[2].decidedAt

\* positions i < j of the snapshot of run h hold legacy documents of two
\* owners with one fitbitUserId
SharedExternalId(h, i, j) ==
  /\ i < j
  /\ Classify(h.snapshot[i].data) = "migrate"
  /\ Classify(h.snapshot[j].data) = "migrate"
  /\ h.snapshot[i].data.firebaseUid # h.snapshot[j].data.firebaseUid
  /\ h.snapshot[i].data.fitbitUserId = h.snapshot[j].data.fitbitUserId
  /\ \A k \in (j + 1)..Len(h.snapshot) :
       Classify(h.snapshot[k].data) = "migrate"
         => h.snapshot[k].data.fitbitUserId # h.snapshot[j].data.fitbitUserId

\* C35: after an apply run without errors whose snapshot held two legacy
\* documents of different owners with the same fitbitUserId f, the document
\* at key f is the one new-format document for f, its owners are the two
\* owners and those the document at f had at the start, and its three token
\* fields are those of the source that comes later in the snapshot.
C35_SharedExternalIdMerges ==
  \A h \in Range(hist) :
    \A i \in 1..Len(h.snapshot), j \in 1..Len(h.snapshot) :
      (~h.dryRun /\ h.errors = 0 /\ SharedExternalId(h, i, j)) =>
        LET first == h.snapshot[i].data
            later == h.snapshot[j].data
            f == later.fitbitUserId
        IN  /\ f \in DOMAIN h.after
            /\ {k \in DOMAIN h.after :
                  /\ IsNewFormat(h.after[k])
                  /\ Has(h.after[k], "fitbitUserId")
                  /\ h.after[k].fitbitUserId = f} = {f}
            /\ OwnersOf(h.after[f])
                 = {first.firebaseUid, later.firebaseUid}
                     \cup StoredOwners(StoreOf(h.snapshot), f)
            /\ Cardinality(OwnersOf(h.after[f])) = Len(h.after[f].firebaseUids)
            /\ h.after[f].accessToken = later.accessToken
            /\ h.after[f].refreshToken = later.refreshToken
            /\ h.after[f].expiresAt = later.expiresAt
            /\ h.after[f].accessToken # first.accessToken

\* an apply run over the legacy documents of u1 and u2, both of f1, has
\* created f1 with the two owners and the tokens of u2
C35_Witness ==
  \E h \in Range(hist) :
    /\ ~h.dryRun /\ h.errors = 0
    /\ \E i \in 1..Len(h.snapshot), j \in 1..Len(h.snapshot) :
         /\ SharedExternalId(h, i, j)
         /\ h.snapshot[i].id = "u1" /\ h.snapshot[j].id = "u2"
    /\ "f1" \notin DOMAIN StoreOf(h.snapshot)
    /\ h.after["f1"].firebaseUids = <<"u1", "u2">>
    /\ h.after["f1"].accessToken = h.after["u2"].accessToken

\* the run takes the next document of its snapshot
LoopStep == migPc = "loop" /\ migPc' = "loop" /\ idx' # idx

\* C36: the snapshot of a run is the one read of the collection at its
\* start and does not change during the run, whatever is written meanwhile;
\* each step of the loop takes the next document of this snapshot and
\* classifies what the snapshot holds of it; a run that has ended has taken
\* each document of its snapshot once, in order, and no other; and a run
\* that is in the loop reaches its end when every store call returns or
\* fails.
C36_SnapshotBoundedTermination ==
  /\ [][/\ snapshot' # snapshot =>
             /\ runs' = runs + 1
             /\ migPc \in {"idle", "exit0", "exit1", "killed"}
             /\ snapshot' = IF getError' THEN <<>> ELSE CollectionGet(store)
        /\ LoopStep =>
             /\ idx <= Len(snapshot)
             /\ idx' = idx + 1
             /\ Len(log') = Len(log) + 1
             /\ log'[idx].id = snapshot[idx].id
             /\ log'[idx].class = ClassOf(snapshot[idx].data)
             /\ \A i \in 1..Len(log) : log'[i] = log[i]
        /\ (migPc = "loop" /\ migPc' # "loop") =>
             /\ idx > Len(snapshot)
             /\ Len(log) = Len(snapshot)
             /\ Len(hist') = Len(hist) + 1
             /\ hist'[Len(hist')].snapshot = snapshot
             /\ hist'[Len(hist')].log = log
             /\ \A i \in 1..Len(snapshot) : log[i].id = snapshot[i].id
             /\ \A i \in 1..Len(snapshot), j \in 1..Len(snapshot) :
                  i # j => snapshot[i].id # snapshot[j].id
       ]_vars
  /\ (migPc = "loop") ~> (migPc \in {"exit0", "exit1"})

\* a run over the one document u1 has ended after one step, while the
\* store held at its end u2, which an exchange saved during the run, and f1,
\* which the run wrote itself
C36_Witness ==
  /\ migPc = "exit0"
  /\ hist # <<>>
  /\ LET h == hist[Len(hist)] IN
       /\ ~h.dryRun
       /\ Len(h.snapshot) = 1
       /\ h.snapshot[1].id = "u1"
       /\ h.log = <<[id |-> "u1", class |-> "migrate", outcome |-> "migrated"]>>
       /\ DOMAIN h.after = {"u1", "u2", "f1"}
       /\ ClassOf(h.after["u2"]) = "migrate"

\* q was answered with the redirect or with the success page
SuccessResponse(q) == q.status \in {302, 200} /\ q.error = <<>>

\* the exchange of q failed: the token endpoint refused, or the store
\* rejected the write
ExchangeFailed(q) ==
  /\ q.error # <<>>
  /\ \/ q.error.name = "FitbitApiError" /\ q.trace[Len(q.trace)] = "token_endpoint"
     \/ FailedIn(q, "saveTokensToFirestore") /\ q.error.name = "Error"

\* C37: a callback is answered with the 302 redirect or with the 200 page
\* only when the exchange was called, the token endpoint answered and the
\* write went through: the response is sent in the step in which the write
\* is carried out, which leaves the record of the owner named in the state
\* with the tokens and the user id of the answer.  The redirect goes to
\* redirectUri with uid set to that owner; the page is sent when the state
\* has no redirectUri.  A callback whose exchange or write failed is
\* answered with an error status, never with 302 or 200, and has written
\* nothing.
C37_SuccessImpliesStored ==
  /\ [](\A q \in Answered :
          Callback(q) =>
            /\ SuccessResponse(q) =>
                 LET decodedState == q.req.query.state.json IN
                   /\ q.trace = <<"accessSecretVersion", "accessSecretVersion",
                                  "exchangeCodeForTokens", "token_endpoint",
                                  "saveTokensToFirestore">>
                   /\ q.issued = 1
                   /\ q.writes = 1
                   /\ q.firebaseUid = decodedState.firebaseUid
                   /\ q.firebaseUid \in DOMAIN store
                   /\ IF Has(decodedState, "redirectUri")
                        THEN /\ q.status = 302
                             /\ q.sent = <<"redirect">>
                             /\ q.body = [url |-> decodedState.redirectUri,
                                          uid |-> q.firebaseUid]
                        ELSE /\ q.status = 200
                             /\ q.sent = <<"send">>
                             /\ q.body = [uid |-> q.firebaseUid]
            /\ ExchangeFailed(q) =>
                 /\ q.status = 500
                 /\ q.sent = <<"json">>
                 /\ q.writes = 0)
  /\ [][\A r \in DOMAIN reqs :
          (/\ HttpMoves(r)
           /\ Callback(reqs'[r])
           /\ reqs'[r].pc = "done"
           /\ SuccessResponse(reqs'[r]))
            => /\ reqs[r].pc = "exchange_save"
               /\ OnlyWritten(reqs[r].firebaseUid)
               /\ LET stored == store'[reqs[r].firebaseUid] IN
                    /\ stored.accessToken = reqs[r].data.access_token
                    /\ stored.refreshToken = reqs[r].data.refresh_token
                    /\ stored.expiresAt = reqs[r].calledAt + (ExpiresIn * 1000)
                    /\ stored.firebaseUid = reqs[r].firebaseUid
                    /\ stored.fitbitUserId = reqs[r].data.user_id
       ]_vars

\* a callback for u2, who had no record, has been redirected with uid = u2
\* and u2's record holds the tokens of the exchange, while the callback for
\* u1 that arrived before it is still waiting for the store
C37_Witness ==
  /\ reqs[2].pc = "done"
  /\ Callback(reqs[2])
  /\ reqs[2].status = 302
  /\ reqs[2].body = [url |-> "http://localhost/callback", uid |-> "u2"]
  /\ DOMAIN store = {"u2"}
  /\ store["u2"].accessToken = reqs[2].data.access_token
  /\ reqs[1].pc = "exchange_save"
  /\ reqs[1].firebaseUid = "u1"

\* the handler of the POST q read a record of its owner that is expired and
\* has no fitbitUserId, and the token endpoint answered its refresh
ExpiredWithoutExternalId(q) ==
  /\ q.tokens # <<>>
  /\ ~Has(q.tokens, "fitbitUserId")
  /\ q.at >= q.tokens.expiresAt
  /\ q.issued = 1

\* the calls of a POST up to the end of a refresh
RefreshedTrace ==
  <<"accessSecretVersion", "accessSecretVersion", "verifyFirebaseIdToken", "verifyIdToken",
    "getTokensFromFirestore", "refreshFitbitAccessToken", "getTokensFromFirestore",
    "token_endpoint", "saveTokensToFirestore">>

\* C38 as stated: such a request refreshes (token endpoint, then the write
\* to the store), is then answered 500 for the missing fitbitUserId, and
\* has written the record.
C38_RefreshThenCheckFails ==
  \A q \in Answered :
    ExpiredWithoutExternalId(q) =>
      /\ q.trace = RefreshedTrace
      /\ q.status = 500
      /\ q.writes = 1

\* C38 amended: an authenticated POST whose handler read a record that is
\* expired and has no fitbitUserId goes into the refresh before fitbitUserId
\* is looked at: the token endpoint is called with the stored refreshToken
\* and answers, so the provider has issued new tokens.  When the record the
\* refresh read has no fitbitUserId either, the write of the answer is
\* rejected by the client of the store because fitbitUserId is undefined:
\* the request is answered 500 with that error, the test of fitbitUserId is
\* not reached, and the request has written nothing.  Only when another
\* request, a callback for the same owner, has stored a fitbitUserId between
\* the two reads is the write sent: carried out, it changes the record, and
\* the request is then answered 500 with 'Fitbit user ID not found in the
\* database.' for the record the handler read first.
C38_RefreshPrecedesCheck ==
  /\ [](\A r \in DOMAIN reqs :
          (reqs[r].pc # "idle" /\ WithoutExternalId(reqs[r])) =>
            LET q == reqs[r] IN
              /\ (q.currentTokens # <<>> /\ Has(q.currentTokens, "fitbitUserId")) =>
                   \E p \in DOMAIN reqs \ {r} :
                     /\ reqs[p].pc # "idle"
                     /\ Callback(reqs[p])
                     /\ reqs[p].firebaseUid = q.firebaseUid
                     /\ reqs[p].writes = 1
              /\ (q.pc = "done" /\ ExpiredWithoutExternalId(q)) =>
                   /\ q.trace = RefreshedTrace
                   /\ q.status = 500
                   /\ q.body = [error |-> q.error.message]
                   /\ IF ~Has(q.currentTokens, "fitbitUserId")
                        THEN /\ q.error.name = "Error"
                             /\ q.error.message
                                  = <<"Cannot use \"undefined\" as a Firestore value.">>
                             /\ q.writes = 0
                      ELSE IF q.writes = 1
                        THEN /\ q.error.name = "FitbitApiError"
                             /\ q.error.message = NotFoundMessage
                      ELSE q.error.message \in StoreMessages)
  /\ [][\A r \in DOMAIN reqs :
          (/\ reqs[r].pc = "refresh_fetch"
           /\ HttpMoves(r)
           /\ ~Has(reqs[r].currentTokens, "fitbitUserId"))
            => /\ store' = store
               /\ reqs'[r].pc = "done"
               /\ reqs'[r].status = 500
               /\ reqs'[r].writes = 0
               /\ reqs'[r].issued = gen' - gen
       ]_vars

\* u1, whose record was expired and had no fitbitUserId, has sent an
\* authenticated POST with one food; between the read of the handler and
\* the read of its refresh a callback has stored a record of u1 with a
\* fitbitUserId; the refresh has written its tokens to that record, and the
\* POST has been answered 500 for the fitbitUserId missing in the record
\* the handler had read
C38_Witness ==
  \E r \in DOMAIN reqs, p \in DOMAIN reqs :
    /\ reqs[r].pc = "done"
    /\ ExpiredWithoutExternalId(reqs[r])
    /\ OwnerOf(reqs[r]) = "u1"
    /\ reqs[r].req.body.foods.items = <<Apple>>
    /\ Has(reqs[r].currentTokens, "fitbitUserId")
    /\ reqs[r].trace = RefreshedTrace
    /\ reqs[r].writes = 1
    /\ reqs[r].status = 500
    /\ reqs[r].body = [error |-> NotFoundMessage]
    /\ reqs[p].pc = "done"
    /\ Callback(reqs[p])
    /\ reqs[p].firebaseUid = "u1"
    /\ reqs[p].status = 302
    /\ store["u1"].accessToken = reqs[r].data.access_token
    /\ store["u1"].fitbitUserId = reqs[p].data.user_id

\* slot r holds a call of processAndLogFoods that mapped its foods
MappedFoods(r) ==
  reqs[r].pc # "idle" /\ reqs[r].op = "foods" /\ reqs[r].promises # <<>>

\* C39: every food of a call is handled by its own task.  A task that is
\* rejected (a field missing, a create or a log answered non-2xx) rejects
\* the call; the create request of every other food that has its fields was
\* issued all the same, and after the rejection the tasks of the other
\* foods go on: the answer to a create is taken and followed by the log
\* request, the answer to a log is taken.
C39_NotAllOrNothing ==
  \A r \in 1..MaxReq :
    MappedFoods(r) =>
      LET q == reqs[r]
          foods == q.nutritionData.foods.items
      IN  \A i \in DOMAIN q.promises :
            /\ q.promises[i].pc = "rejected" => q.result.state = "rejected"
            /\ ~FoodIncomplete(foods[i]) => SentFor(q, "foods.json", i) # {}
            /\ FoodIncomplete(foods[i]) =>
                 /\ q.promises[i] = Promise("rejected", "", "validation")
                 /\ SentFor(q, "foods.json", i) = {}
            /\ q.result.state = "rejected" =>
                 /\ q.promises[i].pc = "creating" =>
                      \A id \in FoodIds : ENABLED CreateFoodResponse(r, i, TRUE, id)
                 /\ q.promises[i].pc = "logging" => ENABLED LogFoodResponse(r, i, TRUE)
                 /\ Created(q, i) => SentFor(q, "foods/log.json", i) # {}

\* a call with tea, which has no unit, and an apple is over: it was rejected
\* for the tea, and the apple was created and logged
C39_Witness ==
  /\ MappedFoods(1)
  /\ reqs[1].pc = "done"
  /\ reqs[1].nutritionData.foods.items = <<Tea, Apple>>
  /\ reqs[1].result.state = "rejected"
  /\ reqs[1].result.error.name = "ValidationError"
  /\ reqs[1].promises[1] = Promise("rejected", "", "validation")
  /\ reqs[1].promises[2].pc = "fulfilled"
  /\ Len(reqs[1].sent) = 2
  /\ reqs[1].sent[2].url = "foods/log.json"

====
